---- MODULE Spec2Model ----
(***************************************************************************)
(* Transaction-execution adapter of the Diem/0L VM (DiemVMImpl): gas       *)
(* admission, the prologue/epilogue hooks, and the production of the       *)
(* transaction output, as a state machine over one adapter instance.       *)
(***************************************************************************)
EXTENDS Integers, Sequences, FiniteSets, TLC

(* ------------------------------ bounds --------------------------------- *)
\* largest transaction size (bytes) a submitted transaction declares
MaxTxnSize == 3
\* largest max_gas_amount a submitted transaction declares
MaxGasUnits == 3
\* largest gas_unit_price a submitted transaction declares
MaxPrice == 3
\* number of transactions run against one adapter instance
MaxTxns == 1

(* --------------------------- program constants -------------------------- *)
DIEM_VERSION_3 == 3

\* Option<T>: None is the empty sequence, Some(x) the one-element sequence
None == <<>>
Some(x) == <<x>>
Unwrap(o) == o[1]

\* the success value of a Result<(), VMStatus>
Ok == [class |-> "Ok", code |-> "EXECUTED"]

(* ------------------------------ statuses -------------------------------- *)
\* StatusCode::status_type: the class of a status code
status_class(code) ==
    CASE code \in {"EXCEEDED_MAX_TRANSACTION_SIZE",
                   "MAX_GAS_UNITS_EXCEEDS_MAX_GAS_UNITS_BOUND",
                   "MAX_GAS_UNITS_BELOW_MIN_TRANSACTION_GAS_UNITS",
                   "GAS_UNIT_PRICE_BELOW_MIN_BOUND",
                   "GAS_UNIT_PRICE_ABOVE_MAX_BOUND"} -> "Rejection"
      [] code = "VM_STARTUP_FAILURE" -> "StartupFailure"
      [] code = "OUT_OF_GAS" -> "Execution"
      [] OTHER -> "InvariantViolation"

\* VMStatus::Error(code)
VMStatus_Error(code) == [class |-> status_class(code), code |-> code]

IsErr(r) == r # Ok

(* ------------------------------ gas schedule ---------------------------- *)
\* the gas constants of the on-chain VMConfig the adapter may have loaded
GasSchedules ==
    [ max_transaction_size_in_bytes : {MaxTxnSize - 1},
      maximum_number_of_gas_units : {MaxGasUnits - 1},
      min_transaction_gas_units : {1},
      large_transaction_cutoff : {1},
      intrinsic_gas_per_byte : {1},
      gas_unit_scaling_factor : {1, 2},
      min_price_per_gas_unit : {1},
      max_price_per_gas_unit : {MaxPrice - 1},
      global_memory_per_byte_write_cost : {1},
      default_account_size : {2} ]

\* calculate_intrinsic_gas: internal gas units charged for the bytes of a transaction
calculate_intrinsic_gas(transaction_size, gas_constants) ==
    IF transaction_size > gas_constants.large_transaction_cutoff
    THEN gas_constants.min_transaction_gas_units
         + gas_constants.intrinsic_gas_per_byte
           * (transaction_size - gas_constants.large_transaction_cutoff)
    ELSE gas_constants.min_transaction_gas_units

\* GasConstants::to_external_units
to_external_units(gas_constants, internal) ==
    internal \div gas_constants.gas_unit_scaling_factor

\* GasConstants::to_internal_units
to_internal_units(gas_constants, external) ==
    external * gas_constants.gas_unit_scaling_factor

(* ------------------------------ adapter --------------------------------- *)
\* DiemVMImpl instances: each of the three config records found or not
VMs ==
    [ on_chain_config : {None} \cup {Some(g) : g \in GasSchedules},
      version : {None, Some(DIEM_VERSION_3 - 1), Some(DIEM_VERSION_3), Some(DIEM_VERSION_3 + 1)},
      publishing_option : {None, Some("Open")} ]

\* DiemVMImpl::get_gas_schedule
get_gas_schedule(self) ==
    IF self.on_chain_config = None
    THEN VMStatus_Error("VM_STARTUP_FAILURE")
    ELSE Ok

\* DiemVMImpl::get_diem_version
get_diem_version(self) ==
    IF self.version = None
    THEN VMStatus_Error("VM_STARTUP_FAILURE")
    ELSE Ok

\* publishing_option answering from the version's record
publishing_option_of_version(self) ==
    IF self.version = None
    THEN VMStatus_Error("VM_STARTUP_FAILURE")
    ELSE Ok

\* DiemVMImpl::publishing_option
publishing_option(self) ==
    IF self.publishing_option = None
    THEN VMStatus_Error("VM_STARTUP_FAILURE")
    ELSE Ok

\* the config storages an instance is built from: fetch_config finds each of the three
\* on-chain configs or does not
ConfigStorages ==
    [ VMConfig : {None} \cup {Some(g) : g \in GasSchedules},
      DiemVersion : {None, Some(DIEM_VERSION_3 - 1), Some(DIEM_VERSION_3)},
      VMPublishingOption : {None, Some("Open")} ]

\* DiemVMImpl::load_configs_impl
load_configs_impl(self, data_cache) ==
    [ self EXCEPT !.on_chain_config = data_cache.VMConfig,
                  !.version = data_cache.DiemVersion,
                  !.publishing_option = data_cache.VMPublishingOption ]

\* DiemVMImpl::new
DiemVMImpl_new(state) ==
    load_configs_impl([ on_chain_config |-> None, version |-> None,
                        publishing_option |-> None ], state)

(* ------------------------------ transactions ---------------------------- *)
\* TransactionMetadata of the transactions submitted
Txns ==
    [ kind : {"script", "module", "writeset"},
      sender : {1},
      sequence_number : {7},
      authentication_key_preimage : {<<"pk", 1>>},
      secondary_signers : {<<>>, <<2>>},
      gas_unit_price : 0..MaxPrice,
      max_gas_amount : 0..MaxGasUnits,
      expiration_timestamp_secs : {9},
      chain_id : {4},
      transaction_size : 1..MaxTxnSize,
      script_hash : {<<"hash", 1>>} ]

\* the key preimages of the secondary signers (one per signer)
secondary_authentication_key_preimages(txn_data) ==
    [i \in 1..Len(txn_data.secondary_signers) |-> <<"pk", txn_data.secondary_signers[i]>>]

\* TransactionMetadata::is_multi_agent
is_multi_agent(txn_data) ==
    ~(txn_data.secondary_signers = <<>>
      \/ secondary_authentication_key_preimages(txn_data) = <<>>)

(* ------------------------------ check_gas -------------------------------- *)
\* DiemVMImpl::check_gas with the rules in another order (price before gas)
check_gas_reordered(self, txn_data) ==
    IF IsErr(get_gas_schedule(self)) THEN get_gas_schedule(self)
    ELSE
    LET gas_constants == Unwrap(self.on_chain_config)
        min_txn_fee == to_external_units(gas_constants,
                          calculate_intrinsic_gas(txn_data.transaction_size, gas_constants))
    IN  IF txn_data.transaction_size > gas_constants.max_transaction_size_in_bytes
        THEN VMStatus_Error("EXCEEDED_MAX_TRANSACTION_SIZE")
        ELSE IF txn_data.gas_unit_price < gas_constants.min_price_per_gas_unit
        THEN VMStatus_Error("GAS_UNIT_PRICE_BELOW_MIN_BOUND")
        ELSE IF txn_data.max_gas_amount > gas_constants.maximum_number_of_gas_units
        THEN VMStatus_Error("MAX_GAS_UNITS_EXCEEDS_MAX_GAS_UNITS_BOUND")
        ELSE IF txn_data.max_gas_amount < min_txn_fee
        THEN VMStatus_Error("MAX_GAS_UNITS_BELOW_MIN_TRANSACTION_GAS_UNITS")
        ELSE IF txn_data.gas_unit_price > gas_constants.max_price_per_gas_unit
        THEN VMStatus_Error("GAS_UNIT_PRICE_ABOVE_MAX_BOUND")
        ELSE Ok

\* DiemVMImpl::check_gas with the size comparison exclusive of its bound
check_gas_exclusive(self, txn_data) ==
    IF IsErr(get_gas_schedule(self)) THEN get_gas_schedule(self)
    ELSE
    LET gas_constants == Unwrap(self.on_chain_config)
        min_txn_fee == to_external_units(gas_constants,
                          calculate_intrinsic_gas(txn_data.transaction_size, gas_constants))
    IN  IF txn_data.transaction_size >= gas_constants.max_transaction_size_in_bytes
        THEN VMStatus_Error("EXCEEDED_MAX_TRANSACTION_SIZE")
        ELSE IF txn_data.max_gas_amount > gas_constants.maximum_number_of_gas_units
        THEN VMStatus_Error("MAX_GAS_UNITS_EXCEEDS_MAX_GAS_UNITS_BOUND")
        ELSE IF txn_data.max_gas_amount < min_txn_fee
        THEN VMStatus_Error("MAX_GAS_UNITS_BELOW_MIN_TRANSACTION_GAS_UNITS")
        ELSE IF txn_data.gas_unit_price < gas_constants.min_price_per_gas_unit
        THEN VMStatus_Error("GAS_UNIT_PRICE_BELOW_MIN_BOUND")
        ELSE IF txn_data.gas_unit_price > gas_constants.max_price_per_gas_unit
        THEN VMStatus_Error("GAS_UNIT_PRICE_ABOVE_MAX_BOUND")
        ELSE Ok

\* DiemVMImpl::check_gas without the size rule
check_gas_no_size_rule(self, txn_data) ==
    IF IsErr(get_gas_schedule(self)) THEN get_gas_schedule(self)
    ELSE
    LET gas_constants == Unwrap(self.on_chain_config)
        min_txn_fee == to_external_units(gas_constants,
                          calculate_intrinsic_gas(txn_data.transaction_size, gas_constants))
    IN  IF txn_data.max_gas_amount > gas_constants.maximum_number_of_gas_units
        THEN VMStatus_Error("MAX_GAS_UNITS_EXCEEDS_MAX_GAS_UNITS_BOUND")
        ELSE IF txn_data.max_gas_amount < min_txn_fee
        THEN VMStatus_Error("MAX_GAS_UNITS_BELOW_MIN_TRANSACTION_GAS_UNITS")
        ELSE IF txn_data.gas_unit_price < gas_constants.min_price_per_gas_unit
        THEN VMStatus_Error("GAS_UNIT_PRICE_BELOW_MIN_BOUND")
        ELSE IF txn_data.gas_unit_price > gas_constants.max_price_per_gas_unit
        THEN VMStatus_Error("GAS_UNIT_PRICE_ABOVE_MAX_BOUND")
        ELSE Ok

\* DiemVMImpl::check_gas
check_gas(self, txn_data) ==
    IF IsErr(get_gas_schedule(self)) THEN get_gas_schedule(self)
    ELSE
    LET gas_constants == Unwrap(self.on_chain_config)
        min_txn_fee == to_external_units(gas_constants,
                          calculate_intrinsic_gas(txn_data.transaction_size, gas_constants))
    IN  IF txn_data.transaction_size > gas_constants.max_transaction_size_in_bytes
        THEN VMStatus_Error("EXCEEDED_MAX_TRANSACTION_SIZE")
        ELSE IF txn_data.max_gas_amount > gas_constants.maximum_number_of_gas_units
        THEN VMStatus_Error("MAX_GAS_UNITS_EXCEEDS_MAX_GAS_UNITS_BOUND")
        ELSE IF txn_data.max_gas_amount < min_txn_fee
        THEN VMStatus_Error("MAX_GAS_UNITS_BELOW_MIN_TRANSACTION_GAS_UNITS")
        ELSE IF txn_data.gas_unit_price < gas_constants.min_price_per_gas_unit
        THEN VMStatus_Error("GAS_UNIT_PRICE_BELOW_MIN_BOUND")
        ELSE IF txn_data.gas_unit_price > gas_constants.max_price_per_gas_unit
        THEN VMStatus_Error("GAS_UNIT_PRICE_ABOVE_MAX_BOUND")
        ELSE Ok

(* ------------------------------ Move values ------------------------------ *)
\* MoveValue constructors (the serialized arguments keep constructor and value)
MoveValue_Signer(a) == <<"Signer", a>>
MoveValue_U64(n) == <<"U64", n>>
MoveValue_U8(n) == <<"U8", n>>
MoveValue_Bool(b) == <<"Bool", b>>
MoveValue_vector_u8(bytes) == <<"vector_u8", bytes>>
MoveValue_vector_address(addrs) == <<"vector_address", addrs>>
MoveValue_Vector(vals) == <<"Vector", vals>>

\* HashValue::sha3_256_of
sha3_256_of(bytes) == <<"sha3_256", bytes>>

\* account_config::type_tag_for_currency_code
type_tag_for_currency_code(symbol) == <<"TypeTag", symbol>>

\* the currency of the sender's account
AccountCurrencySymbol == "XUS"

(* ------------------------------ gas meter -------------------------------- *)
\* zero_cost_schedule: the cost table of an unmetered meter
ZeroCostSchedule ==
    [ max_transaction_size_in_bytes |-> 0,
      maximum_number_of_gas_units |-> 0,
      min_transaction_gas_units |-> 0,
      large_transaction_cutoff |-> 0,
      intrinsic_gas_per_byte |-> 0,
      gas_unit_scaling_factor |-> 1,
      min_price_per_gas_unit |-> 0,
      max_price_per_gas_unit |-> 0,
      global_memory_per_byte_write_cost |-> 0,
      default_account_size |-> 0 ]

\* GasStatus::new_unmetered: a meter that never charges
GasStatus_new_unmetered ==
    [gas_left |-> 0, charge |-> FALSE, cost_table |-> ZeroCostSchedule]

\* GasStatus::new: a charging meter holding the budget in internal units
GasStatus_new(gas_constants, max_gas_amount) ==
    [ gas_left |-> to_internal_units(gas_constants, max_gas_amount),
      charge |-> TRUE, cost_table |-> gas_constants ]

\* GasStatus::remaining_gas: the gas left, in external units
remaining_gas(gas_status) ==
    to_external_units(gas_status.cost_table, gas_status.gas_left)

\* GasStatus::deduct_gas: the meter after the charge and whether it could be paid
deduct_gas(gas_status, amount) ==
    IF ~gas_status.charge THEN [gas |-> gas_status, res |-> "OK"]
    ELSE IF gas_status.gas_left >= amount
    THEN [gas |-> [gas_status EXCEPT !.gas_left = @ - amount], res |-> "OK"]
    ELSE [gas |-> [gas_status EXCEPT !.gas_left = 0], res |-> "OUT_OF_GAS"]

(* ------------------------------ error translation ------------------------ *)
\* the errors a call into the contract engine may return (VMError)
EngineErrors == {"VERIFICATION", "ABORT", "EXECUTION_FAILURE", "OUT_OF_GAS"}

\* move_vm_runtime::logging::expect_no_verification_errors
expect_no_verification_errors(err) ==
    IF err = "VERIFICATION" THEN "UNEXPECTED_VERIFIER_ERROR" ELSE err

\* errors::convert_prologue_error: every error becomes a rejection of the transaction
convert_prologue_error(err) == [class |-> "Rejection", code |-> err]

\* errors::convert_epilogue_error: verifier errors are invariant violations,
\* the others are converted as in the prologue
convert_epilogue_error(err) ==
    IF err = "UNEXPECTED_VERIFIER_ERROR"
    THEN [class |-> "InvariantViolation", code |-> err]
    ELSE convert_prologue_error(err)

\* errors::expect_only_successful_execution: every error is an invariant violation
expect_only_successful_execution(err, function_name) ==
    VMStatus_Error("UNEXPECTED_ERROR_FROM_KNOWN_MOVE_FUNCTION")

\* the names of the three translations, as a hook carries them
ErrorPolicy(on_err, err, function_name) ==
    CASE on_err = "convert_prologue_error" -> convert_prologue_error(err)
      [] on_err = "convert_epilogue_error" -> convert_epilogue_error(err)
      [] on_err = "expect_only_successful_execution" ->
            expect_only_successful_execution(err, function_name)

(* ------------------------------ system hooks ----------------------------- *)
\* A hook is what one run_* method hands to Session::execute_function, plus the
\* status it returns before the call (early) and the translation of the call's error.
Hook(early, function, ty_args, args, meter, on_err) ==
    [ early |-> early, module |-> "ACCOUNT_MODULE", function |-> function,
      ty_args |-> ty_args, args |-> args, meter |-> meter, on_err |-> on_err ]

\* run_script_prologue: the multi-agent form is taken (lines 237 and 262)
script_prologue_is_multi_agent(self, txn_data) ==
    Unwrap(self.version) >= DIEM_VERSION_3 /\ is_multi_agent(txn_data)

\* run_script_prologue: secondary_public_key_hashes
secondary_public_key_hashes(txn_data) ==
    LET preimages == secondary_authentication_key_preimages(txn_data)
    IN  [i \in 1..Len(preimages) |-> MoveValue_vector_u8(sha3_256_of(preimages[i]))]

\* run_script_prologue: args, the list chosen on the secondary signers alone
script_prologue_args_by_signers(self, txn_data) ==
    IF is_multi_agent(txn_data)
    THEN << MoveValue_Signer(txn_data.sender),
            MoveValue_U64(txn_data.sequence_number),
            MoveValue_vector_u8(txn_data.authentication_key_preimage),
            MoveValue_vector_address(txn_data.secondary_signers),
            MoveValue_Vector(secondary_public_key_hashes(txn_data)),
            MoveValue_U64(txn_data.gas_unit_price),
            MoveValue_U64(txn_data.max_gas_amount),
            MoveValue_U64(txn_data.expiration_timestamp_secs),
            MoveValue_U8(txn_data.chain_id) >>
    ELSE << MoveValue_Signer(txn_data.sender),
            MoveValue_U64(txn_data.sequence_number),
            MoveValue_vector_u8(txn_data.authentication_key_preimage),
            MoveValue_U64(txn_data.gas_unit_price),
            MoveValue_U64(txn_data.max_gas_amount),
            MoveValue_U64(txn_data.expiration_timestamp_secs),
            MoveValue_U8(txn_data.chain_id),
            MoveValue_vector_u8(txn_data.script_hash) >>

\* run_script_prologue: args
script_prologue_args(self, txn_data) ==
    IF script_prologue_is_multi_agent(self, txn_data)
    THEN << MoveValue_Signer(txn_data.sender),
            MoveValue_U64(txn_data.sequence_number),
            MoveValue_vector_u8(txn_data.authentication_key_preimage),
            MoveValue_vector_address(txn_data.secondary_signers),
            MoveValue_Vector(secondary_public_key_hashes(txn_data)),
            MoveValue_U64(txn_data.gas_unit_price),
            MoveValue_U64(txn_data.max_gas_amount),
            MoveValue_U64(txn_data.expiration_timestamp_secs),
            MoveValue_U8(txn_data.chain_id) >>
    ELSE << MoveValue_Signer(txn_data.sender),
            MoveValue_U64(txn_data.sequence_number),
            MoveValue_vector_u8(txn_data.authentication_key_preimage),
            MoveValue_U64(txn_data.gas_unit_price),
            MoveValue_U64(txn_data.max_gas_amount),
            MoveValue_U64(txn_data.expiration_timestamp_secs),
            MoveValue_U8(txn_data.chain_id),
            MoveValue_vector_u8(txn_data.script_hash) >>

\* run_script_prologue: prologue_function_name, chosen on the version alone
script_prologue_function_name_by_version(self, txn_data) ==
    IF Unwrap(self.version) >= DIEM_VERSION_3
    THEN "multi_agent_script_prologue"
    ELSE "script_prologue"

\* run_script_prologue: prologue_function_name
script_prologue_function_name(self, txn_data) ==
    IF script_prologue_is_multi_agent(self, txn_data)
    THEN "multi_agent_script_prologue"
    ELSE "script_prologue"

\* DiemVMImpl::run_script_prologue
run_script_prologue(self, txn_data, account_currency_symbol) ==
    IF IsErr(get_diem_version(self))
    THEN Hook(get_diem_version(self), "script_prologue", <<>>, <<>>,
              "new_unmetered", "convert_prologue_error")
    ELSE Hook(Ok, script_prologue_function_name(self, txn_data),
              <<type_tag_for_currency_code(account_currency_symbol)>>,
              script_prologue_args(self, txn_data),
              "new_unmetered", "convert_prologue_error")

\* run_module_prologue translating its error as an epilogue does
run_module_prologue_epilogue_policy(self, txn_data, account_currency_symbol) ==
    Hook(Ok, "module_prologue",
         <<type_tag_for_currency_code(account_currency_symbol)>>,
         << MoveValue_Signer(txn_data.sender),
            MoveValue_U64(txn_data.sequence_number),
            MoveValue_vector_u8(txn_data.authentication_key_preimage),
            MoveValue_U64(txn_data.gas_unit_price),
            MoveValue_U64(txn_data.max_gas_amount),
            MoveValue_U64(txn_data.expiration_timestamp_secs),
            MoveValue_U8(txn_data.chain_id) >>,
         "new_unmetered", "convert_epilogue_error")

\* DiemVMImpl::run_module_prologue
run_module_prologue(self, txn_data, account_currency_symbol) ==
    Hook(Ok, "module_prologue",
         <<type_tag_for_currency_code(account_currency_symbol)>>,
         << MoveValue_Signer(txn_data.sender),
            MoveValue_U64(txn_data.sequence_number),
            MoveValue_vector_u8(txn_data.authentication_key_preimage),
            MoveValue_U64(txn_data.gas_unit_price),
            MoveValue_U64(txn_data.max_gas_amount),
            MoveValue_U64(txn_data.expiration_timestamp_secs),
            MoveValue_U8(txn_data.chain_id) >>,
         "new_unmetered", "convert_prologue_error")

\* run_success_epilogue treating every error as an invariant violation
run_success_epilogue_all_fatal(self, gas_status, txn_data, account_currency_symbol, failpoint) ==
    Hook(IF failpoint THEN VMStatus_Error("UNKNOWN_INVARIANT_VIOLATION_ERROR") ELSE Ok,
         "epilogue",
         <<type_tag_for_currency_code(account_currency_symbol)>>,
         << MoveValue_Signer(txn_data.sender),
            MoveValue_U64(txn_data.sequence_number),
            MoveValue_U64(txn_data.gas_unit_price),
            MoveValue_U64(txn_data.max_gas_amount),
            MoveValue_U64(remaining_gas(gas_status)) >>,
         "live", "expect_only_successful_execution")

\* DiemVMImpl::run_success_epilogue; failpoint: the test failpoint
\* move_adapter::run_success_epilogue is set
run_success_epilogue(self, gas_status, txn_data, account_currency_symbol, failpoint) ==
    Hook(IF failpoint THEN VMStatus_Error("UNKNOWN_INVARIANT_VIOLATION_ERROR") ELSE Ok,
         "epilogue",
         <<type_tag_for_currency_code(account_currency_symbol)>>,
         << MoveValue_Signer(txn_data.sender),
            MoveValue_U64(txn_data.sequence_number),
            MoveValue_U64(txn_data.gas_unit_price),
            MoveValue_U64(txn_data.max_gas_amount),
            MoveValue_U64(remaining_gas(gas_status)) >>,
         "live", "convert_epilogue_error")

\* run_failure_epilogue translating its error as the success epilogue does
run_failure_epilogue_epilogue_policy(self, gas_status, txn_data, account_currency_symbol) ==
    Hook(Ok, "epilogue",
         <<type_tag_for_currency_code(account_currency_symbol)>>,
         << MoveValue_Signer(txn_data.sender),
            MoveValue_U64(txn_data.sequence_number),
            MoveValue_U64(txn_data.gas_unit_price),
            MoveValue_U64(txn_data.max_gas_amount),
            MoveValue_U64(remaining_gas(gas_status)) >>,
         "live", "convert_epilogue_error")

\* run_failure_epilogue passing the gas budget where the remaining gas belongs
run_failure_epilogue_without_remaining(self, gas_status, txn_data, account_currency_symbol) ==
    Hook(Ok, "epilogue",
         <<type_tag_for_currency_code(account_currency_symbol)>>,
         << MoveValue_Signer(txn_data.sender),
            MoveValue_U64(txn_data.sequence_number),
            MoveValue_U64(txn_data.gas_unit_price),
            MoveValue_U64(txn_data.max_gas_amount) >>,
         "live", "expect_only_successful_execution")

\* DiemVMImpl::run_failure_epilogue
run_failure_epilogue(self, gas_status, txn_data, account_currency_symbol) ==
    Hook(Ok, "epilogue",
         <<type_tag_for_currency_code(account_currency_symbol)>>,
         << MoveValue_Signer(txn_data.sender),
            MoveValue_U64(txn_data.sequence_number),
            MoveValue_U64(txn_data.gas_unit_price),
            MoveValue_U64(txn_data.max_gas_amount),
            MoveValue_U64(remaining_gas(gas_status)) >>,
         "live", "expect_only_successful_execution")

\* run_writeset_prologue run against the transaction's live meter
run_writeset_prologue_metered(self, txn_data) ==
    Hook(Ok, "writeset_prologue", <<>>,
         << MoveValue_Signer(txn_data.sender),
            MoveValue_U64(txn_data.sequence_number),
            MoveValue_vector_u8(txn_data.authentication_key_preimage),
            MoveValue_U64(txn_data.expiration_timestamp_secs),
            MoveValue_U8(txn_data.chain_id) >>,
         "live", "convert_prologue_error")

\* DiemVMImpl::run_writeset_prologue
run_writeset_prologue(self, txn_data) ==
    Hook(Ok, "writeset_prologue", <<>>,
         << MoveValue_Signer(txn_data.sender),
            MoveValue_U64(txn_data.sequence_number),
            MoveValue_vector_u8(txn_data.authentication_key_preimage),
            MoveValue_U64(txn_data.expiration_timestamp_secs),
            MoveValue_U8(txn_data.chain_id) >>,
         "new_unmetered", "convert_prologue_error")

\* DiemVMImpl::run_writeset_epilogue
run_writeset_epilogue(self, txn_data, should_trigger_reconfiguration) ==
    Hook(Ok, "writeset_epilogue", <<>>,
         << MoveValue_Signer(txn_data.sender),
            MoveValue_U64(txn_data.sequence_number),
            MoveValue_Bool(should_trigger_reconfiguration) >>,
         "new_unmetered", "expect_only_successful_execution")

(* ------------------------------ contract engine -------------------------- *)
\* One entry of a session's change-set: the module or resource `name` of account
\* `addr`, with its new blob (Some) or none (a deletion).
Write(addr, kind, name, blob) == [addr |-> addr, kind |-> kind, name |-> name, blob |-> blob]

NoEffects == [writes |-> {}, events |-> <<>>]

\* EventKey::LENGTH, the number of bytes of a well-formed event id
EVENT_KEY_LENGTH == 24

\* what the payload of a transaction may have written and emitted when it ends
PayloadEffects ==
    { NoEffects,
      [ writes |-> {Write(2, "resource", 1, Some("payload"))}, events |-> <<>> ],
      [ writes |-> {Write(1, "resource", 1, Some("payload")),
                    Write(2, "resource", 1, None),
                    Write(3, "module", 1, Some("payload"))},
        events |-> << [guid |-> [len |-> EVENT_KEY_LENGTH, id |-> 1], seq_num |-> 0,
                       ty_tag |-> "T", blob |-> "payload"] >> ] }

\* what the epilogue of the account module writes: the sender's account resource
EpilogueEffects(txn_data) ==
    [ writes |-> {Write(txn_data.sender, "resource", 0, Some("epilogue"))},
      events |-> <<>> ]

\* a session just opened by MoveVM::new_session
NewSessionState == [open |-> TRUE, writes |-> {}, events |-> <<>>]
ClosedSession == [open |-> FALSE, writes |-> {}, events |-> <<>>]

SameKey(w1, w2) == w1.addr = w2.addr /\ w1.kind = w2.kind /\ w1.name = w2.name

\* the session after a call's effects: a later write of a key replaces the earlier
ApplyEffects(sess, eff) ==
    [ sess EXCEPT
        !.writes = {w \in @ : \A n \in eff.writes : ~SameKey(w, n)} \cup eff.writes,
        !.events = @ \o eff.events ]

\* Session::execute_function against a meter: the engine's possible answers, each
\* with the meter afterwards and the effects left in the session.  An unmetered
\* meter is never charged and never runs out of gas.
EngineOutcomes(gs, ok_effects, err_effects) ==
    { [res |-> "OK", gas |-> g, eff |-> e] :
        g \in IF gs.charge
              THEN {[gs EXCEPT !.gas_left = n] : n \in 0..gs.gas_left}
              ELSE {gs},
        e \in ok_effects }
    \cup
    { [res |-> r, gas |-> g, eff |-> e] :
        r \in EngineErrors \ {"OUT_OF_GAS"},
        g \in IF gs.charge
              THEN {[gs EXCEPT !.gas_left = n] : n \in 0..gs.gas_left}
              ELSE {gs},
        e \in err_effects }
    \cup
    { [res |-> "OUT_OF_GAS", gas |-> [gs EXCEPT !.gas_left = 0], eff |-> e] :
        e \in IF gs.charge THEN err_effects ELSE {} }

\* the record the engine keeps of one call into it
EngineCall(hook) ==
    [ module |-> hook.module, function |-> hook.function, ty_args |-> hook.ty_args,
      args |-> hook.args, metered |-> (hook.meter = "live") ]

NewSessionCall ==
    [ module |-> "MoveVM", function |-> "new_session", ty_args |-> <<>>,
      args |-> <<>>, metered |-> FALSE ]

PayloadCall ==
    [ module |-> "payload", function |-> "main", ty_args |-> <<>>,
      args |-> <<>>, metered |-> TRUE ]

\* Session::num_mutated_accounts: the accounts written in the session, but the sender
num_mutated_accounts(sess, sender) ==
    Cardinality({w.addr : w \in sess.writes} \ {sender})

\* the Result<(), VMStatus> of a hook whose call returned `res`
HookResult(hook, res) ==
    IF res = "OK" THEN Ok
    ELSE ErrorPolicy(hook.on_err, expect_no_verification_errors(res), hook.function)

(* ------------------------------ effect converter ------------------------- *)
WriteOp_Deletion == <<"Deletion">>
WriteOp_Value(blob) == <<"Value", blob>>

\* AccessPath of a resource (address + resource discriminator) or of a module
create_access_path(addr, kind, name) ==
    [address |-> addr, path |-> <<IF kind = "module" THEN "code" ELSE "resource", name>>]

\* AccessPathCache::get_resource_path / get_module_path: the cached path of the
\* key when the cache holds one, the computed path otherwise
get_path(ap_cache, addr, kind, name) ==
    IF \E c \in ap_cache : c.addr = addr /\ c.kind = kind /\ c.name = name
    THEN (CHOOSE c \in ap_cache : c.addr = addr /\ c.kind = kind /\ c.name = name).ap
    ELSE create_access_path(addr, kind, name)

\* the iteration order of a change-set: accounts by address, and within an
\* account the resources (by tag) before the modules (by name)
KeyBefore(w1, w2) ==
    \/ w1.addr < w2.addr
    \/ w1.addr = w2.addr /\ w1.kind = "resource" /\ w2.kind = "module"
    \/ w1.addr = w2.addr /\ w1.kind = w2.kind /\ w1.name < w2.name

RECURSIVE ChangeSetSeq(_)
ChangeSetSeq(writes) ==
    IF writes = {} THEN <<>>
    ELSE LET first == CHOOSE w \in writes : \A o \in writes \ {w} : KeyBefore(w, o)
         IN  <<first>> \o ChangeSetSeq(writes \ {first})

\* the ops with the entries that carry no blob left out
changeset_ops_skip_deletions(ap_cache, writes) ==
    LET entries == SelectSeq(ChangeSetSeq(writes), LAMBDA e : e.blob # None)
    IN  [ i \in 1..Len(entries) |->
            << get_path(ap_cache, entries[i].addr, entries[i].kind, entries[i].name),
               WriteOp_Value(Unwrap(entries[i].blob)) >> ]

\* the ops with every module of the change-set ahead of every resource
changeset_ops_modules_first(ap_cache, writes) ==
    LET all == ChangeSetSeq(writes)
        entries == SelectSeq(all, LAMBDA e : e.kind = "module") \o
                   SelectSeq(all, LAMBDA e : e.kind = "resource")
    IN  [ i \in 1..Len(entries) |->
            << get_path(ap_cache, entries[i].addr, entries[i].kind, entries[i].name),
               IF entries[i].blob = None THEN WriteOp_Deletion
               ELSE WriteOp_Value(Unwrap(entries[i].blob)) >> ]

\* convert_changeset_and_events_cached: ops
changeset_ops(ap_cache, writes) ==
    LET entries == ChangeSetSeq(writes)
    IN  [ i \in 1..Len(entries) |->
            << get_path(ap_cache, entries[i].addr, entries[i].kind, entries[i].name),
               IF entries[i].blob = None THEN WriteOp_Deletion
               ELSE WriteOp_Value(Unwrap(entries[i].blob)) >> ]

\* WriteSetMut::freeze: the paths of a write-set are unique
freeze_ok(ops) ==
    \A i, j \in 1..Len(ops) : i # j => ops[i][1] # ops[j][1]

\* EventKey::try_from
event_key_ok(guid) == guid.len = EVENT_KEY_LENGTH

\* ContractEvent::new
ContractEvent_new(ev) ==
    [key |-> <<"EventKey", ev.guid.id>>, seq_num |-> ev.seq_num,
     ty_tag |-> ev.ty_tag, blob |-> ev.blob]

\* the cache after a conversion: the paths computed on a miss are kept
ap_cache_filled(ap_cache, writes) ==
    ap_cache \cup
    { [addr |-> w.addr, kind |-> w.kind, name |-> w.name,
       ap |-> create_access_path(w.addr, w.kind, w.name)] :
        w \in { x \in writes : ~\E c \in ap_cache :
                    c.addr = x.addr /\ c.kind = x.kind /\ c.name = x.name } }

\* the conversion leaving out the events whose id does not parse
convert_changeset_and_events_cached_skip_bad_events(ap_cache, writes, events) ==
    LET ops == changeset_ops(ap_cache, writes)
        good == SelectSeq(events, LAMBDA e : event_key_ok(e.guid))
    IN  IF ~freeze_ok(ops)
        THEN [res |-> VMStatus_Error("DATA_FORMAT_ERROR"), write_set |-> <<>>, events |-> <<>>]
        ELSE [res |-> Ok, write_set |-> ops,
              events |-> [i \in 1..Len(good) |-> ContractEvent_new(good[i])]]

\* the conversion taking the ops as the write-set without freezing them
convert_changeset_and_events_cached_unfrozen(ap_cache, writes, events) ==
    LET ops == changeset_ops(ap_cache, writes)
    IN  IF \E i \in 1..Len(events) : ~event_key_ok(events[i].guid)
        THEN [res |-> VMStatus_Error("EVENT_KEY_MISMATCH"), write_set |-> <<>>, events |-> <<>>]
        ELSE [res |-> Ok, write_set |-> ops,
              events |-> [i \in 1..Len(events) |-> ContractEvent_new(events[i])]]

\* convert_changeset_and_events_cached
convert_changeset_and_events_cached(ap_cache, writes, events) ==
    LET ops == changeset_ops(ap_cache, writes)
    IN  IF ~freeze_ok(ops)
        THEN [res |-> VMStatus_Error("DATA_FORMAT_ERROR"), write_set |-> <<>>, events |-> <<>>]
        ELSE IF \E i \in 1..Len(events) : ~event_key_ok(events[i].guid)
        THEN [res |-> VMStatus_Error("EVENT_KEY_MISMATCH"), write_set |-> <<>>, events |-> <<>>]
        ELSE [res |-> Ok, write_set |-> ops,
              events |-> [i \in 1..Len(events) |-> ContractEvent_new(events[i])]]

\* the conversion with a cache that outlives the call and holds a path of another state
convert_changeset_and_events_stale_cache(writes, events) ==
    convert_changeset_and_events_cached(
        { [addr |-> w.addr, kind |-> w.kind, name |-> w.name,
           ap |-> create_access_path(w.addr, w.kind, w.name + 1)] : w \in writes },
        writes, events)

\* convert_changeset_and_events: the conversion with the unit cache
convert_changeset_and_events(writes, events) ==
    convert_changeset_and_events_cached({}, writes, events)

(* ------------------------------ gas accounting --------------------------- *)
\* charge_global_write_gas_usage charging every entry written instead of every account
charge_global_write_gas_usage_per_write(gas_status, sess, sender) ==
    LET total_cost == Cardinality(sess.writes)
                      * (gas_status.cost_table.global_memory_per_byte_write_cost
                         * gas_status.cost_table.default_account_size)
        after == deduct_gas(gas_status, total_cost)
    IN  [ gas |-> after.gas,
          res |-> IF after.res = "OK" THEN Ok ELSE VMStatus_Error(after.res) ]

\* charge_global_write_gas_usage dropping the error of a deduction that failed
charge_global_write_gas_usage_unchecked(gas_status, sess, sender) ==
    LET total_cost == num_mutated_accounts(sess, sender)
                      * (gas_status.cost_table.global_memory_per_byte_write_cost
                         * gas_status.cost_table.default_account_size)
        after == deduct_gas(gas_status, total_cost)
    IN  [ gas |-> after.gas, res |-> Ok ]

\* charge_global_write_gas_usage: the meter afterwards and the outcome
charge_global_write_gas_usage(gas_status, sess, sender) ==
    LET total_cost == num_mutated_accounts(sess, sender)
                      * (gas_status.cost_table.global_memory_per_byte_write_cost
                         * gas_status.cost_table.default_account_size)
        after == deduct_gas(gas_status, total_cost)
    IN  [ gas |-> after.gas,
          res |-> IF after.res = "OK" THEN Ok ELSE VMStatus_Error(after.res) ]

\* get_transaction_output reporting the gas that is left as the gas used
get_transaction_output_gas_left(ap_cache, sess, gas_left, txn_data, keep_status, finish_ok) ==
    LET converted == convert_changeset_and_events_cached(ap_cache, sess.writes, sess.events)
    IN  IF ~finish_ok
        THEN [res |-> VMStatus_Error("STORAGE_ERROR"), output |-> None]
        ELSE IF IsErr(converted.res)
        THEN [res |-> converted.res, output |-> None]
        ELSE [res |-> Ok,
              output |-> Some([ write_set |-> converted.write_set,
                                events |-> converted.events,
                                gas_used |-> gas_left,
                                status |-> keep_status ])]

\* get_transaction_output; finish_ok: Session::finish succeeded
get_transaction_output(ap_cache, sess, gas_left, txn_data, keep_status, finish_ok) ==
    LET gas_used == txn_data.max_gas_amount - gas_left
        converted == convert_changeset_and_events_cached(ap_cache, sess.writes, sess.events)
    IN  IF ~finish_ok
        THEN [res |-> VMStatus_Error("STORAGE_ERROR"), output |-> None]
        ELSE IF IsErr(converted.res)
        THEN [res |-> converted.res, output |-> None]
        ELSE [res |-> Ok,
              output |-> Some([ write_set |-> converted.write_set,
                                events |-> converted.events,
                                gas_used |-> gas_used,
                                status |-> keep_status ])]

(* ------------------------------ upgrade coordinator ---------------------- *)
\* most modules an elected upgrade payload holds
MaxModules == 2
\* highest round of a block
MaxRound == 3
\* number of block-metadata transactions processed
MaxBlocks == 3

\* the round apply_stdlib_upgrade acts on
UPGRADE_ROUND == 2

CORE_CODE_ADDRESS == <<"address", 1>>
diem_root_address == <<"address", 10>>
\* the sender of a block-metadata transaction
reserved_vm_address == 0

\* a panic of the thread (Result::expect on an Err), with its message
Panic(msg) == [class |-> "Panic", code |-> msg]

\* VMError::into_vm_status
into_vm_status(err) ==
    [class |-> IF err = "VERIFICATION" THEN "Verification" ELSE "Execution", code |-> err]

\* the serialized module sets an upgrade payload may hold: distinct modules, in order
UpgradePayloads ==
    { p \in UNION { [1..n -> 1..MaxModules] : n \in 0..MaxModules } :
        \A i, j \in 1..Len(p) : i # j => p[i] # p[j] }

\* what the state view holds at the root address for UpgradePayloadResource
UpgradePayloadResources ==
    { [state |-> "absent", payload |-> <<>>], [state |-> "malformed", payload |-> <<>>],
      [state |-> "storage_error", payload |-> <<>>] }
    \cup { [state |-> "present", payload |-> p] : p \in UpgradePayloads }

\* get_upgrade_payload answering an empty payload for a resource that is not there
get_upgrade_payload_or_default(remote_cache) ==
    IF remote_cache.state = "present"
    THEN [res |-> Ok, payload |-> remote_cache.payload]
    ELSE IF remote_cache.state = "malformed"
    THEN [res |-> VMStatus_Error("RESOURCE_DOES_NOT_EXIST"), payload |-> <<>>]
    ELSE [res |-> Ok, payload |-> <<>>]

\* get_upgrade_payload
get_upgrade_payload(remote_cache) ==
    IF remote_cache.state = "present"
    THEN [res |-> Ok, payload |-> remote_cache.payload]
    ELSE IF remote_cache.state = "malformed"
    THEN [res |-> VMStatus_Error("RESOURCE_DOES_NOT_EXIST"), payload |-> <<>>]
    ELSE [res |-> VMStatus_Error("CURRENCY_INFO_DOES_NOT_EXIST"), payload |-> <<>>]

\* import_stdlib: the compiled modules of a payload
import_stdlib(payload) == [i \in 1..Len(payload) |-> [module |-> payload[i]]]

\* CompiledModule::serialize
serialize(module) == <<"bytes", module.module>>

\* the engine's record of Session::revise_module
ReviseModuleCall(bytes, address) ==
    [ module |-> address, function |-> "revise_module", ty_args |-> <<>>,
      args |-> <<bytes>> ]

\* the engine's record of Session::execute_function
ExecuteFunctionCall(module, function, args) ==
    [ module |-> module, function |-> function, ty_args |-> <<>>, args |-> args ]

ORACLE_MODULE == <<CORE_CODE_ADDRESS, "Oracle">>
UPGRADE_MODULE == <<CORE_CODE_ADDRESS, "Upgrade">>
DIEMCONFIG_MODULE == <<CORE_CODE_ADDRESS, "DiemConfig">>
CHECK_UPGRADE == "check_upgrade"
RESET_PAYLOAD == "reset_payload"
UPGRADE_RECONFIG == "upgrade_reconfig"

\* tick_oracle_consensus with the call's result unwrapped by expect
tick_oracle_consensus_expect(txn_sender, engine_res) ==
    [ call |-> ExecuteFunctionCall(ORACLE_MODULE, CHECK_UPGRADE,
                                   <<MoveValue_Signer(txn_sender)>>),
      res |-> IF engine_res = "OK" THEN Ok ELSE Panic("Couldn't check upgrade") ]

\* tick_oracle_consensus: the call made and the Result returned; engine_res is
\* the engine's answer to the call
tick_oracle_consensus(txn_sender, engine_res) ==
    [ call |-> ExecuteFunctionCall(ORACLE_MODULE, CHECK_UPGRADE,
                                   <<MoveValue_Signer(txn_sender)>>),
      res |-> IF engine_res = "OK" THEN Ok ELSE into_vm_status(engine_res) ]

\* the engine's answers to the calls of one upgrade: publish_fail is the position of
\* the revise_module call that fails (0: none does)
UpgradeAnswers(remote_cache) ==
    [ publish_fail : 0..Len(remote_cache.payload), reset_ok : BOOLEAN, reconfig_ok : BOOLEAN ]

\* the revise_module calls of the modules up to position n
PublishCalls(new_stdlib, n) ==
    [ i \in 1..n |-> ReviseModuleCall(serialize(new_stdlib[i]), CORE_CODE_ADDRESS) ]

\* apply_stdlib_upgrade without the call that resets the payload
apply_stdlib_upgrade_no_reset(round, remote_cache, txn_sender, answers) ==
    IF round # UPGRADE_ROUND THEN [res |-> Ok, calls |-> <<>>]
    ELSE LET got == get_upgrade_payload(remote_cache)
             payload == got.payload
             new_stdlib == import_stdlib(payload)
             reset == <<>>
             reconfig == <<ExecuteFunctionCall(DIEMCONFIG_MODULE, UPGRADE_RECONFIG, <<>>)>>
         IN  IF IsErr(got.res) THEN [res |-> got.res, calls |-> <<>>]
             ELSE IF ~(Len(payload) > 0) THEN [res |-> Ok, calls |-> <<>>]
             ELSE IF answers.publish_fail # 0
             THEN [ res |-> Panic("Failed to publish module"),
                    calls |-> PublishCalls(new_stdlib, answers.publish_fail) ]
             ELSE IF ~answers.reconfig_ok
             THEN [ res |-> Panic("Couldn't emit reconfig event"),
                    calls |-> PublishCalls(new_stdlib, Len(new_stdlib)) \o reset \o reconfig ]
             ELSE [ res |-> Ok,
                    calls |-> PublishCalls(new_stdlib, Len(new_stdlib)) \o reset \o reconfig ]

\* apply_stdlib_upgrade without the test for an empty payload
apply_stdlib_upgrade_unguarded(round, remote_cache, txn_sender, answers) ==
    IF round # UPGRADE_ROUND THEN [res |-> Ok, calls |-> <<>>]
    ELSE LET got == get_upgrade_payload(remote_cache)
             payload == got.payload
             new_stdlib == import_stdlib(payload)
             reset == <<ExecuteFunctionCall(UPGRADE_MODULE, RESET_PAYLOAD,
                                              <<MoveValue_Signer(txn_sender)>>)>>
             reconfig == <<ExecuteFunctionCall(DIEMCONFIG_MODULE, UPGRADE_RECONFIG, <<>>)>>
         IN  IF IsErr(got.res) THEN [res |-> got.res, calls |-> <<>>]
             ELSE IF ~(TRUE) THEN [res |-> Ok, calls |-> <<>>]
             ELSE IF answers.publish_fail # 0
             THEN [ res |-> Panic("Failed to publish module"),
                    calls |-> PublishCalls(new_stdlib, answers.publish_fail) ]
             ELSE IF ~answers.reset_ok
             THEN [ res |-> Panic("Couldn't reset upgrade payload"),
                    calls |-> PublishCalls(new_stdlib, Len(new_stdlib)) \o reset ]
             ELSE IF ~answers.reconfig_ok
             THEN [ res |-> Panic("Couldn't emit reconfig event"),
                    calls |-> PublishCalls(new_stdlib, Len(new_stdlib)) \o reset \o reconfig ]
             ELSE [ res |-> Ok,
                    calls |-> PublishCalls(new_stdlib, Len(new_stdlib)) \o reset \o reconfig ]

\* apply_stdlib_upgrade with the reconfiguration call made before the reset call
apply_stdlib_upgrade_reconfig_first(round, remote_cache, txn_sender, answers) ==
    IF round # UPGRADE_ROUND THEN [res |-> Ok, calls |-> <<>>]
    ELSE LET got == get_upgrade_payload(remote_cache)
             payload == got.payload
             new_stdlib == import_stdlib(payload)
             reset == <<ExecuteFunctionCall(UPGRADE_MODULE, RESET_PAYLOAD,
                                              <<MoveValue_Signer(txn_sender)>>)>>
             reconfig == <<ExecuteFunctionCall(DIEMCONFIG_MODULE, UPGRADE_RECONFIG, <<>>)>>
         IN  IF IsErr(got.res) THEN [res |-> got.res, calls |-> <<>>]
             ELSE IF ~(Len(payload) > 0) THEN [res |-> Ok, calls |-> <<>>]
             ELSE IF answers.publish_fail # 0
             THEN [ res |-> Panic("Failed to publish module"),
                    calls |-> PublishCalls(new_stdlib, answers.publish_fail) ]
             ELSE IF ~answers.reconfig_ok
             THEN [ res |-> Panic("Couldn't emit reconfig event"),
                    calls |-> PublishCalls(new_stdlib, Len(new_stdlib)) \o reconfig ]
             ELSE IF ~answers.reset_ok
             THEN [ res |-> Panic("Couldn't reset upgrade payload"),
                    calls |-> PublishCalls(new_stdlib, Len(new_stdlib)) \o reconfig \o reset ]
             ELSE [ res |-> Ok,
                    calls |-> PublishCalls(new_stdlib, Len(new_stdlib)) \o reconfig \o reset ]

\* apply_stdlib_upgrade reading the payload before it looks at the round
apply_stdlib_upgrade_read_first(round, remote_cache, txn_sender, answers) ==
         LET got == get_upgrade_payload(remote_cache)
             payload == got.payload
             new_stdlib == import_stdlib(payload)
             reset == <<ExecuteFunctionCall(UPGRADE_MODULE, RESET_PAYLOAD,
                                              <<MoveValue_Signer(txn_sender)>>)>>
             reconfig == <<ExecuteFunctionCall(DIEMCONFIG_MODULE, UPGRADE_RECONFIG, <<>>)>>
         IN  IF IsErr(got.res) THEN [res |-> got.res, calls |-> <<>>]
             ELSE IF ~(round = UPGRADE_ROUND /\ Len(payload) > 0) THEN [res |-> Ok, calls |-> <<>>]
             ELSE IF answers.publish_fail # 0
             THEN [ res |-> Panic("Failed to publish module"),
                    calls |-> PublishCalls(new_stdlib, answers.publish_fail) ]
             ELSE IF ~answers.reset_ok
             THEN [ res |-> Panic("Couldn't reset upgrade payload"),
                    calls |-> PublishCalls(new_stdlib, Len(new_stdlib)) \o reset ]
             ELSE IF ~answers.reconfig_ok
             THEN [ res |-> Panic("Couldn't emit reconfig event"),
                    calls |-> PublishCalls(new_stdlib, Len(new_stdlib)) \o reset \o reconfig ]
             ELSE [ res |-> Ok,
                    calls |-> PublishCalls(new_stdlib, Len(new_stdlib)) \o reset \o reconfig ]

\* apply_stdlib_upgrade going on to the next module when a publish fails
apply_stdlib_upgrade_skip_failed(round, remote_cache, txn_sender, answers) ==
    IF round # UPGRADE_ROUND THEN [res |-> Ok, calls |-> <<>>]
    ELSE LET got == get_upgrade_payload(remote_cache)
             payload == got.payload
             new_stdlib == import_stdlib(payload)
             reset == <<ExecuteFunctionCall(UPGRADE_MODULE, RESET_PAYLOAD,
                                              <<MoveValue_Signer(txn_sender)>>)>>
             reconfig == <<ExecuteFunctionCall(DIEMCONFIG_MODULE, UPGRADE_RECONFIG, <<>>)>>
         IN  IF IsErr(got.res) THEN [res |-> got.res, calls |-> <<>>]
             ELSE IF ~(Len(payload) > 0) THEN [res |-> Ok, calls |-> <<>>]
             ELSE IF ~answers.reset_ok
             THEN [ res |-> Panic("Couldn't reset upgrade payload"),
                    calls |-> PublishCalls(new_stdlib, Len(new_stdlib)) \o reset ]
             ELSE IF ~answers.reconfig_ok
             THEN [ res |-> Panic("Couldn't emit reconfig event"),
                    calls |-> PublishCalls(new_stdlib, Len(new_stdlib)) \o reset \o reconfig ]
             ELSE [ res |-> Ok,
                    calls |-> PublishCalls(new_stdlib, Len(new_stdlib)) \o reset \o reconfig ]

\* apply_stdlib_upgrade: the Result returned (or the panic) and the calls made into the
\* session, given the engine's answers to them
apply_stdlib_upgrade(round, remote_cache, txn_sender, answers) ==
    IF round # UPGRADE_ROUND THEN [res |-> Ok, calls |-> <<>>]
    ELSE LET got == get_upgrade_payload(remote_cache)
             payload == got.payload
             new_stdlib == import_stdlib(payload)
             reset == <<ExecuteFunctionCall(UPGRADE_MODULE, RESET_PAYLOAD,
                                              <<MoveValue_Signer(txn_sender)>>)>>
             reconfig == <<ExecuteFunctionCall(DIEMCONFIG_MODULE, UPGRADE_RECONFIG, <<>>)>>
         IN  IF IsErr(got.res) THEN [res |-> got.res, calls |-> <<>>]
             ELSE IF ~(Len(payload) > 0) THEN [res |-> Ok, calls |-> <<>>]
             ELSE IF answers.publish_fail # 0
             THEN [ res |-> Panic("Failed to publish module"),
                    calls |-> PublishCalls(new_stdlib, answers.publish_fail) ]
             ELSE IF ~answers.reset_ok
             THEN [ res |-> Panic("Couldn't reset upgrade payload"),
                    calls |-> PublishCalls(new_stdlib, Len(new_stdlib)) \o reset ]
             ELSE IF ~answers.reconfig_ok
             THEN [ res |-> Panic("Couldn't emit reconfig event"),
                    calls |-> PublishCalls(new_stdlib, Len(new_stdlib)) \o reset \o reconfig ]
             ELSE [ res |-> Ok,
                    calls |-> PublishCalls(new_stdlib, Len(new_stdlib)) \o reset \o reconfig ]

(* ------------------------------ client selection ------------------------ *)
\* most entries of profile.upstream_nodes
MaxUpstream == 2

Urls == {"http://a", "http://b"}

\* AppCfg: the profile's upstream_nodes and default_node
AppCfgs ==
    [ upstream_nodes : {None} \cup
                       { Some(l) : l \in UNION { [1..n -> Urls] : n \in 0..MaxUpstream } },
      default_node : {None, Some("http://local")} ]

\* the entries of profile.upstream_nodes, none when the list is not configured
upstream_list(config) ==
    IF config.upstream_nodes = None THEN <<>> ELSE Unwrap(config.upstream_nodes)

\* what a candidate answers during one call: DiemClient::new fails, or get_metadata
\* fails, or it reports a version
Answers ==
    {[make_ok |-> FALSE, metadata |-> None]} \cup
    { [make_ok |-> TRUE, metadata |-> m] :
        m \in {None, Some([version |-> 0]), Some([version |-> 1])} }

\* the orders choose_multiple(rng, len) may give the n entries
Perms(n) == { p \in [1..n -> 1..n] : \A i, j \in 1..n : i # j => p[i] # p[j] }

\* what the environment answers to one call of find_a_remote_jsonrpc: the random
\* order, each entry's answer, and whether the client of the entry found is built
FindEnvs(config) ==
    [ perm : Perms(Len(upstream_list(config))),
      answers : [1..Len(upstream_list(config)) -> Answers],
      remake_ok : BOOLEAN,
      waypoint_ok : {TRUE}, local_ok : {TRUE}, sync : {"synced"} ]

\* what the environment answers to one call of pick_client: also get_waypoint, the
\* client of the local node, and check_sync (an error, in sync, or behind)
PickEnvs(config) ==
    [ perm : Perms(Len(upstream_list(config))),
      answers : [1..Len(upstream_list(config)) -> Answers],
      remake_ok : BOOLEAN,
      waypoint_ok : BOOLEAN, local_ok : BOOLEAN, sync : {"err", "synced", "behind"} ]

\* pick_client with a swarm path asks the environment for one client only
SwarmEnvs ==
    [ perm : {<<>>}, answers : {<<>>}, remake_ok : {TRUE},
      waypoint_ok : {TRUE}, local_ok : BOOLEAN, sync : {"synced"} ]

NoEnv ==
    [ perm |-> <<>>, answers |-> <<>>, remake_ok |-> TRUE,
      waypoint_ok |-> TRUE, local_ok |-> TRUE, sync |-> "synced" ]

\* make_client; new_ok: DiemClient::new succeeded
make_client(url, new_ok) ==
    IF ~new_ok THEN [res |-> "Err", client |-> None]
    ELSE [res |-> "Ok",
          client |-> IF url = None THEN Some("http://localhost:8080") ELSE url]

\* the closure of find taking any candidate whose metadata can be read
candidate_ok_any_metadata(answer) ==
    IF ~answer.make_ok THEN FALSE
    ELSE answer.metadata # None

\* the closure of find: the entry's client is built and reports a version above 0
candidate_ok(answer) ==
    IF ~answer.make_ok THEN FALSE
    ELSE IF answer.metadata = None THEN FALSE
    ELSE Unwrap(answer.metadata).version > 0

\* find_a_remote_jsonrpc; `tried`: the entries the closure was called on, in order
find_a_remote_jsonrpc(config, env) ==
    LET list == upstream_list(config)
        hits == { k \in 1..Len(list) : candidate_ok(env.answers[env.perm[k]]) }
        first == CHOOSE k \in hits : \A o \in hits : k <= o
    IN  IF config.upstream_nodes # None /\ hits # {}
        THEN LET made == make_client(Some(list[env.perm[first]]), env.remake_ok)
             IN  [res |-> made.res, client |-> made.client,
                  tried |-> SubSeq(env.perm, 1, first)]
        ELSE [res |-> "Err", client |-> None, tried |-> env.perm]

\* default_local_client, called with a default_node configured
default_local_client(config, env) == make_client(config.default_node, env.local_ok)

\* swarm_test_client: the swarm's url becomes the default node and the only upstream
swarm_test_client(config, swarm_path, env) ==
    LET url == "http://swarm"
        made == make_client(Some(url), env.local_ok)
    IN  [ res |-> made.res, client |-> made.client, tried |-> <<>>,
          calls |-> <<"swarm_test_client">>,
          config |-> [ config EXCEPT !.default_node = Some(url),
                                     !.upstream_nodes = Some(<<url>>) ] ]

\* pick_client; `calls`: the steps it went through, in order
pick_client(swarm_path, config, env) ==
    IF swarm_path # None THEN swarm_test_client(config, Unwrap(swarm_path), env)
    ELSE IF ~env.waypoint_ok
    THEN [ res |-> "Err", client |-> None, tried |-> <<>>, config |-> config,
           calls |-> <<"get_waypoint">> ]
    ELSE IF config.default_node = None
    THEN [ res |-> "Panic", client |-> None, tried |-> <<>>, config |-> config,
           calls |-> <<"get_waypoint", "default_local_client">> ]
    ELSE IF default_local_client(config, env).res = "Err"
    THEN [ res |-> "Err", client |-> None, tried |-> <<>>, config |-> config,
           calls |-> <<"get_waypoint", "default_local_client">> ]
    ELSE LET local_client == default_local_client(config, env)
             remote_client == find_a_remote_jsonrpc(config, env)
         IN  IF remote_client.res = "Err"
             THEN [ res |-> "Err", client |-> None, tried |-> remote_client.tried,
                    config |-> config,
                    calls |-> <<"get_waypoint", "default_local_client",
                                "find_a_remote_jsonrpc">> ]
             ELSE [ res |-> IF env.sync = "err" THEN "Err" ELSE "Ok",
                    client |-> IF env.sync = "err" THEN None
                               ELSE IF env.sync = "synced" THEN local_client.client
                               ELSE remote_client.client,
                    tried |-> remote_client.tried,
                    config |-> config,
                    calls |-> <<"get_waypoint", "default_local_client",
                                "find_a_remote_jsonrpc", "check_sync">> ]

(* ------------------------------ state ------------------------------------ *)
VARIABLES
    vm,          \* the DiemVMImpl instance: its three configuration records
    pc,          \* where the transaction in hand is in its lifecycle
    txn,         \* the TransactionMetadata of the transaction in hand (an Option)
    gas_status,  \* the live GasStatus of the transaction
    session,     \* the engine session of the transaction
    calls,       \* the calls made into the contract engine for this transaction
    gas_check,   \* what check_gas returned for this transaction
    status,      \* the VMStatus the transaction stands at
    output,      \* the TransactionOutput produced (an Option)
    ntxn,        \* transactions submitted so far
    last_hook,   \* the adapter method entered last for this transaction
    engine_res,  \* what the engine answered to its call ("none": no call made)
    block,       \* the block-metadata transaction in hand and the upgrade state it acts on
    conv,        \* a conversion of a change-set and events, outside any transaction
    exec,        \* the config storage the instance was built from and the threads sharing it
    client       \* the operator tooling's configuration and its call to pick a client

vars == <<vm, pc, txn, gas_status, session, calls, gas_check, status, output, ntxn,
          last_hook, engine_res, block, conv, exec, client>>

T == Unwrap(txn)

\* no block-metadata transaction in hand; `resource` is the upgrade payload the state
\* view holds and `code` the modules published under the code address
NoBlock(resource) ==
    [ bpc |-> "idle", round |-> 0, resource |-> resource, code |-> {}, calls |-> <<>>,
      tick_res |-> Ok, upgrade_res |-> Ok, failed_call |-> "none", revised |-> <<>>,
      nblocks |-> 0 ]

\* no conversion asked for
NoConversion ==
    [ cpc |-> "idle", writes |-> {}, events |-> <<>>, ap_cache |-> {},
      res |-> Ok, write_set |-> <<>>, out_events |-> <<>>, runs |-> 0,
      plain |-> None ]

\* threads executing transactions against one shared instance
MaxThreads == 2

\* a thread with no transaction
IdleThread ==
    [ tpc |-> "idle", txn |-> None, alone |-> [gas_check |-> Ok, hook |-> None],
      gas_check |-> Ok, hook |-> None, configs |-> None ]

\* no instance shared: nothing in the storage, every thread idle
NoExec ==
    [ data_cache |-> [VMConfig |-> None, DiemVersion |-> None, VMPublishingOption |-> None],
      threads |-> [i \in 1..MaxThreads |-> IdleThread] ]

\* no call of the client tooling
NoClient ==
    [ cpc |-> "idle", config |-> [upstream_nodes |-> None, default_node |-> None],
      op |-> "none", swarm_path |-> None, env |-> NoEnv, res |-> "none",
      client |-> None, tried |-> <<>>, calls |-> <<>> ]

Init ==
    /\ vm \in VMs
    /\ pc = "idle"
    /\ txn = None
    /\ gas_status = GasStatus_new_unmetered
    /\ session = ClosedSession
    /\ calls = <<>>
    /\ gas_check = Ok
    /\ status = Ok
    /\ output = None
    /\ ntxn = 0
    /\ last_hook = "none"
    /\ engine_res = "none"
    /\ block = NoBlock([state |-> "absent", payload |-> <<>>])
    /\ conv = NoConversion
    /\ exec = NoExec
    /\ client = NoClient

\* a transaction arrives
Submit ==
    /\ pc = "idle"
    /\ ntxn < MaxTxns
    /\ \E t \in Txns : txn' = Some(t)
    /\ pc' = "check_gas"
    /\ gas_status' = GasStatus_new_unmetered
    /\ session' = ClosedSession
    /\ calls' = <<>>
    /\ gas_check' = Ok
    /\ status' = Ok
    /\ output' = None
    /\ ntxn' = ntxn + 1
    /\ UNCHANGED <<exec, client, block, conv, vm, last_hook, engine_res>>

\* gas admission control
CheckGas ==
    /\ pc = "check_gas"
    /\ gas_check' = check_gas(vm, T)
    /\ status' = check_gas(vm, T)
    /\ pc' = IF IsErr(check_gas(vm, T)) THEN "discarded" ELSE "new_session"
    /\ UNCHANGED <<exec, client, block, conv, vm, txn, gas_status, session, calls, output, ntxn, last_hook, engine_res>>

\* DiemVMImpl::new_session, and the transaction's meter
NewSession ==
    /\ pc = "new_session"
    /\ session' = NewSessionState
    /\ calls' = Append(calls, NewSessionCall)
    /\ gas_status' = GasStatus_new(Unwrap(vm.on_chain_config), T.max_gas_amount)
    /\ pc' = "prologue"
    /\ UNCHANGED <<exec, client, block, conv, vm, txn, gas_check, status, output, ntxn, last_hook, engine_res>>

\* one run_* method: its early return, or its call into the session and the
\* translation of the call's result
InvokeHook(method, hook, ok_effects, err_effects, pc_ok, pc_err) ==
    IF IsErr(hook.early)
    THEN /\ status' = hook.early
         /\ pc' = pc_err
         /\ last_hook' = method
         /\ engine_res' = "none"
         /\ UNCHANGED <<exec, client, block, conv, vm, txn, gas_status, session, calls, gas_check, output, ntxn>>
    ELSE \E o \in EngineOutcomes(IF hook.meter = "live" THEN gas_status
                                 ELSE GasStatus_new_unmetered,
                                 ok_effects, err_effects) :
            /\ calls' = Append(calls, EngineCall(hook))
            /\ gas_status' = IF hook.meter = "live" THEN o.gas ELSE gas_status
            /\ session' = ApplyEffects(session, o.eff)
            /\ status' = IF o.res = "OK" THEN status ELSE HookResult(hook, o.res)
            /\ pc' = IF o.res = "OK" THEN pc_ok ELSE pc_err
            /\ last_hook' = method
            /\ engine_res' = o.res
            /\ UNCHANGED <<exec, client, block, conv, vm, txn, gas_check, output, ntxn>>

\* the prologue of the transaction's shape
RunScriptPrologue ==
    /\ pc = "prologue" /\ T.kind = "script"
    /\ InvokeHook("run_script_prologue", run_script_prologue(vm, T, AccountCurrencySymbol),
                  {NoEffects}, {NoEffects}, "payload", "discarded")

RunModulePrologue ==
    /\ pc = "prologue" /\ T.kind = "module"
    /\ InvokeHook("run_module_prologue", run_module_prologue(vm, T, AccountCurrencySymbol),
                  {NoEffects}, {NoEffects}, "payload", "discarded")

RunWritesetPrologue ==
    /\ pc = "prologue" /\ T.kind = "writeset"
    /\ InvokeHook("run_writeset_prologue", run_writeset_prologue(vm, T),
                  {NoEffects}, {NoEffects}, "payload", "discarded")

\* the engine executes the payload against the live meter; a failure of the
\* payload is recoverable and leaves whatever it wrote in the session
ExecutePayload ==
    /\ pc = "payload"
    /\ \E o \in EngineOutcomes(gas_status, PayloadEffects, PayloadEffects) :
        /\ o.res # "VERIFICATION"
        /\ calls' = Append(calls, PayloadCall)
        /\ gas_status' = o.gas
        /\ session' = ApplyEffects(session, o.eff)
        /\ status' = IF o.res = "OK" THEN status
                     ELSE [class |-> "Execution", code |-> o.res]
        /\ pc' = IF o.res = "OK"
                 THEN (IF T.kind = "writeset" THEN "writeset_epilogue" ELSE "charge")
                 ELSE (IF T.kind = "writeset" THEN "discarded" ELSE "failure_cleanup")
        /\ engine_res' = o.res
    /\ last_hook' = "payload"
    /\ UNCHANGED <<exec, client, block, conv, vm, txn, gas_check, output, ntxn>>

\* the charge for the accounts the payload touched
ChargeGlobalWrite ==
    /\ pc = "charge"
    /\ LET c == charge_global_write_gas_usage(gas_status, session, T.sender)
       IN  /\ gas_status' = c.gas
           /\ status' = IF IsErr(c.res) THEN c.res ELSE status
           /\ pc' = IF IsErr(c.res) THEN "failure_cleanup" ELSE "success_epilogue"
    /\ last_hook' = "charge_global_write_gas_usage"
    /\ engine_res' = "none"
    /\ UNCHANGED <<exec, client, block, conv, vm, txn, session, calls, gas_check, output, ntxn>>

RunSuccessEpilogue ==
    /\ pc = "success_epilogue"
    /\ \E failpoint \in BOOLEAN :
        InvokeHook("run_success_epilogue", run_success_epilogue(vm, gas_status, T, AccountCurrencySymbol, failpoint),
                   {EpilogueEffects(T)}, {NoEffects}, "output", "discarded")

\* after a failed payload the session is dropped and a new one opened
FailureCleanup ==
    /\ pc = "failure_cleanup"
    /\ session' = NewSessionState
    /\ calls' = Append(calls, NewSessionCall)
    /\ pc' = "failure_epilogue"
    /\ UNCHANGED <<exec, client, block, conv, vm, txn, gas_status, gas_check, status, output, ntxn, last_hook, engine_res>>

RunFailureEpilogue ==
    /\ pc = "failure_epilogue"
    /\ InvokeHook("run_failure_epilogue", run_failure_epilogue(vm, gas_status, T, AccountCurrencySymbol),
                  {EpilogueEffects(T)}, {NoEffects}, "output", "discarded")

RunWritesetEpilogue ==
    /\ pc = "writeset_epilogue"
    /\ \E should_trigger_reconfiguration \in BOOLEAN :
        InvokeHook("run_writeset_epilogue", run_writeset_epilogue(vm, T, should_trigger_reconfiguration),
                   {EpilogueEffects(T)}, {NoEffects}, "output", "discarded")

\* the session is finished and its effects become the transaction's output
GetTransactionOutput ==
    /\ pc = "output"
    /\ \E finish_ok \in BOOLEAN :
        LET r == get_transaction_output({}, session, remaining_gas(gas_status), T,
                                        status, finish_ok)
        IN  /\ output' = r.output
            /\ status' = IF IsErr(r.res) THEN r.res ELSE status
            /\ pc' = IF IsErr(r.res) THEN "discarded" ELSE "done"
    /\ session' = ClosedSession
    /\ UNCHANGED <<exec, client, block, conv, vm, txn, gas_status, calls, gas_check, ntxn, last_hook, engine_res>>

\* the transaction's result is handed back and its meter, session and metadata dropped
Retire ==
    /\ pc \in {"done", "discarded"}
    /\ pc' = "idle"
    /\ txn' = None
    /\ gas_status' = GasStatus_new_unmetered
    /\ session' = ClosedSession
    /\ calls' = <<>>
    /\ gas_check' = Ok
    /\ status' = Ok
    /\ output' = None
    /\ last_hook' = "none"
    /\ engine_res' = "none"
    /\ UNCHANGED <<exec, client, block, conv, vm, ntxn>>

Next ==
    \/ Submit
    \/ Retire
    \/ CheckGas
    \/ NewSession
    \/ RunScriptPrologue
    \/ RunModulePrologue
    \/ RunWritesetPrologue
    \/ ExecutePayload
    \/ ChargeGlobalWrite
    \/ RunSuccessEpilogue
    \/ FailureCleanup
    \/ RunFailureEpilogue
    \/ RunWritesetEpilogue
    \/ GetTransactionOutput

Spec == Init /\ [][Next]_vars

(* ------------------------------ block-metadata transactions -------------- *)
txn_vars == <<vm, pc, txn, gas_status, session, calls, gas_check, status, output, ntxn,
              last_hook, engine_res>>

\* the state view holds some upgrade payload resource, or none
InitUpgrade ==
    /\ vm = [ on_chain_config |-> None, version |-> None, publishing_option |-> None ]
    /\ pc = "idle"
    /\ txn = None
    /\ gas_status = GasStatus_new_unmetered
    /\ session = ClosedSession
    /\ calls = <<>>
    /\ gas_check = Ok
    /\ status = Ok
    /\ output = None
    /\ ntxn = 0
    /\ last_hook = "none"
    /\ engine_res = "none"
    /\ \E r \in UpgradePayloadResources : block = NoBlock(r)
    /\ conv = NoConversion
    /\ exec = NoExec
    /\ client = NoClient

\* a block-metadata transaction arrives, with the round of its block
StartBlock ==
    /\ block.bpc \in {"idle", "done", "failed"}
    /\ block.nblocks < MaxBlocks
    /\ \E round \in 1..MaxRound :
        block' = [ block EXCEPT !.bpc = "tick", !.round = round, !.calls = <<>>,
                                !.tick_res = Ok, !.upgrade_res = Ok,
                                !.failed_call = "none", !.revised = <<>>,
                                !.nblocks = @ + 1 ]
    /\ UNCHANGED <<txn_vars, conv, exec, client>>

\* tick_oracle_consensus; whatever Result it returns, the transaction goes on
TickOracleConsensus ==
    /\ block.bpc = "tick"
    /\ \E engine \in {"OK"} \cup EngineErrors :
        LET t == tick_oracle_consensus(reserved_vm_address, engine)
        IN  block' = [ block EXCEPT !.calls = Append(@, t.call),
                                    !.tick_res = t.res,
                                    !.bpc = IF t.res.class = "Panic" THEN "aborted"
                                            ELSE "upgrade" ]
    /\ UNCHANGED <<txn_vars, conv, exec, client>>

\* apply_stdlib_upgrade: a panic ends the process, an error fails the transaction
ApplyStdlibUpgrade ==
    /\ block.bpc = "upgrade"
    /\ \E answers \in UpgradeAnswers(block.resource) :
        LET u == apply_stdlib_upgrade(block.round, block.resource, reserved_vm_address,
                                      answers)
            \* the call the engine answered with an error, if it was made
            failed == IF u.calls = <<>> THEN "none"
                      ELSE IF answers.publish_fail # 0 THEN "revise_module"
                      ELSE IF ~answers.reset_ok THEN RESET_PAYLOAD
                      ELSE IF ~answers.reconfig_ok THEN UPGRADE_RECONFIG
                      ELSE "none"
            \* the modules the session holds revised: those of the calls that succeeded
            revise == SelectSeq(u.calls, LAMBDA c : c.function = "revise_module")
            revised == [ i \in 1..(Len(revise) - IF failed = "revise_module" THEN 1 ELSE 0)
                           |-> revise[i].args[1][2] ]
        IN  block' = [ block EXCEPT !.calls = @ \o u.calls,
                                    !.upgrade_res = u.res,
                                    !.failed_call = failed,
                                    !.revised = revised,
                                    !.bpc = IF u.res.class = "Panic" THEN "aborted"
                                            ELSE IF IsErr(u.res) THEN "failed"
                                            ELSE "commit" ]
    /\ UNCHANGED <<txn_vars, conv, exec, client>>

\* the modules the calls of a session published under the code address
PublishedBy(cs) ==
    { cs[i].args[1][2] : i \in { k \in 1..Len(cs) : cs[k].function = "revise_module" } }

\* the session of the block-metadata transaction is finished and its effects reach
\* the state: the modules revised, and the payload emptied by Upgrade::reset_payload
CommitBlock ==
    /\ block.bpc = "commit"
    /\ block' = [ block EXCEPT
                    !.bpc = "done",
                    !.code = @ \cup PublishedBy(block.calls),
                    !.resource = IF \E i \in 1..Len(block.calls) :
                                        block.calls[i].function = RESET_PAYLOAD
                                  THEN [state |-> "present", payload |-> <<>>]
                                  ELSE @ ]
    /\ UNCHANGED <<txn_vars, conv, exec, client>>

NextUpgrade ==
    \/ StartBlock
    \/ TickOracleConsensus
    \/ ApplyStdlibUpgrade
    \/ CommitBlock

SpecUpgrade == InitUpgrade /\ [][NextUpgrade]_vars

(* ------------------------------ conversions ------------------------------ *)
\* accounts a change-set writes to
MaxAccounts == 2
\* most events a session emitted
MaxEvents == 2
\* conversions run with one injected cache
MaxRuns == 2

\* the change-sets converted: per account, its resource and its module each untouched,
\* deleted, or given a blob
ChangeSets ==
    LET entries == { Write(a, k, 1, b) : a \in 1..MaxAccounts, k \in {"resource", "module"},
                                         b \in {None, Some("blob")} }
    IN  { ws \in SUBSET entries : \A w1, w2 \in ws : SameKey(w1, w2) => w1 = w2 }

\* the raw events converted: ids of the right length and ids one byte short
MoveEvents ==
    { [guid |-> [len |-> l, id |-> l], seq_num |-> n, ty_tag |-> "T", blob |-> "blob"] :
        l \in {EVENT_KEY_LENGTH, EVENT_KEY_LENGTH - 1}, n \in 0..(MaxEvents - 1) }

\* the events of one session are emitted to one handle: consecutive sequence numbers
EventLists ==
    UNION { { evs \in [1..n -> MoveEvents] : \A i \in 1..n : evs[i].seq_num = i - 1 } :
              n \in 0..MaxEvents }

\* the caches injected: empty, or holding for the resource of account 1 the path of
\* some account's resource (its own, or another's)
InjectedCaches ==
    {{}} \cup { { [addr |-> 1, kind |-> "resource", name |-> 1,
                   ap |-> create_access_path(a, "resource", 1)] } : a \in 1..MaxAccounts }

InitConvert ==
    /\ vm = [ on_chain_config |-> None, version |-> None, publishing_option |-> None ]
    /\ pc = "idle"
    /\ txn = None
    /\ gas_status = GasStatus_new_unmetered
    /\ session = ClosedSession
    /\ calls = <<>>
    /\ gas_check = Ok
    /\ status = Ok
    /\ output = None
    /\ ntxn = 0
    /\ last_hook = "none"
    /\ engine_res = "none"
    /\ block = NoBlock([state |-> "absent", payload |-> <<>>])
    /\ \E ws \in ChangeSets, evs \in EventLists, cache \in InjectedCaches :
        conv = [ NoConversion EXCEPT !.cpc = "input", !.writes = ws, !.events = evs,
                                     !.ap_cache = cache ]
    /\ exec = NoExec
    /\ client = NoClient

\* convert_changeset_and_events_cached on the injected cache, which keeps what it computed
ConvertCached ==
    /\ conv.cpc \in {"input", "converted"}
    /\ conv.runs < MaxRuns
    /\ LET r == convert_changeset_and_events_cached(conv.ap_cache, conv.writes, conv.events)
       IN  conv' = [ conv EXCEPT !.cpc = "converted", !.res = r.res,
                                 !.write_set = r.write_set, !.out_events = r.events,
                                 !.ap_cache = ap_cache_filled(@, conv.writes),
                                 !.runs = @ + 1 ]
    /\ UNCHANGED <<txn_vars, block, exec, client>>

\* convert_changeset_and_events on the same change-set and events
ConvertPlain ==
    /\ conv.cpc \in {"input", "converted"}
    /\ conv.plain = None
    /\ conv' = [ conv EXCEPT !.plain = Some(convert_changeset_and_events(conv.writes,
                                                                        conv.events)) ]
    /\ UNCHANGED <<txn_vars, block, exec, client>>

NextConvert ==
    \/ ConvertCached
    \/ ConvertPlain

SpecConvert == InitConvert /\ [][NextConvert]_vars

(* ------------------------------ shared instance -------------------------- *)
\* the transactions the threads execute: scripts of one byte or of more bytes than
\* any schedule admits, sent alone or with a secondary signer
ThreadTxns ==
    { t \in Txns : /\ t.kind = "script"
                   /\ t.gas_unit_price = 1
                   /\ t.max_gas_amount = 1
                   /\ t.transaction_size \in {1, MaxTxnSize} }

\* the TransactionMetadata thread i hands to the methods of the instance
txn_data_first_thread(i) ==
    IF exec.threads[1].txn # None THEN Unwrap(exec.threads[1].txn)
    ELSE Unwrap(exec.threads[i].txn)

txn_data(i) == Unwrap(exec.threads[i].txn)

InitShared ==
    /\ \E d \in ConfigStorages :
        /\ exec = [NoExec EXCEPT !.data_cache = d]
        /\ vm = DiemVMImpl_new(d)
    /\ pc = "idle"
    /\ txn = None
    /\ gas_status = GasStatus_new_unmetered
    /\ session = ClosedSession
    /\ calls = <<>>
    /\ gas_check = Ok
    /\ status = Ok
    /\ output = None
    /\ ntxn = 0
    /\ last_hook = "none"
    /\ engine_res = "none"
    /\ block = NoBlock([state |-> "absent", payload |-> <<>>])
    /\ conv = NoConversion
    /\ client = NoClient

\* a transaction arrives at a thread; `alone` is what the instance answers to it
\* before any other thread moves
ThreadSubmit ==
    \E i \in 1..MaxThreads, t \in ThreadTxns :
        /\ exec.threads[i].tpc = "idle"
        /\ exec' = [ exec EXCEPT !.threads[i] =
                        [ IdleThread EXCEPT
                            !.tpc = "check_gas",
                            !.txn = Some(t),
                            !.alone = [ gas_check |-> check_gas(vm, t),
                                        hook |-> Some(run_script_prologue(
                                                     vm, t, AccountCurrencySymbol)) ] ] ]
        /\ UNCHANGED <<txn_vars, block, conv, client>>

\* the thread calls check_gas on the shared instance
ThreadCheckGas ==
    \E i \in 1..MaxThreads :
        /\ exec.threads[i].tpc = "check_gas"
        /\ exec' = [ exec EXCEPT
                        !.threads[i].gas_check = check_gas(vm, txn_data(i)),
                        !.threads[i].tpc = IF IsErr(check_gas(vm, txn_data(i)))
                                           THEN "configs" ELSE "prologue" ]
        /\ UNCHANGED <<txn_vars, block, conv, client>>

\* the thread calls run_script_prologue on the shared instance
ThreadPrologue ==
    \E i \in 1..MaxThreads :
        /\ exec.threads[i].tpc = "prologue"
        /\ exec' = [ exec EXCEPT
                        !.threads[i].hook = Some(run_script_prologue(
                                                vm, txn_data(i), AccountCurrencySymbol)),
                        !.threads[i].tpc = "configs" ]
        /\ UNCHANGED <<txn_vars, block, conv, client>>

\* the thread calls the three config accessors of the shared instance
ThreadReadConfigs ==
    \E i \in 1..MaxThreads :
        /\ exec.threads[i].tpc = "configs"
        /\ exec' = [ exec EXCEPT
                        !.threads[i].configs =
                            Some([ gas_schedule |-> get_gas_schedule(vm),
                                   diem_version |-> get_diem_version(vm),
                                   publishing_option |-> publishing_option(vm) ]),
                        !.threads[i].tpc = "done" ]
        /\ UNCHANGED <<txn_vars, block, conv, client>>

NextShared ==
    \/ ThreadSubmit
    \/ ThreadCheckGas
    \/ ThreadPrologue
    \/ ThreadReadConfigs

SpecShared == InitShared /\ [][NextShared]_vars

(* ------------------------------ client tooling --------------------------- *)
InitClient ==
    /\ vm = [ on_chain_config |-> None, version |-> None, publishing_option |-> None ]
    /\ pc = "idle"
    /\ txn = None
    /\ gas_status = GasStatus_new_unmetered
    /\ session = ClosedSession
    /\ calls = <<>>
    /\ gas_check = Ok
    /\ status = Ok
    /\ output = None
    /\ ntxn = 0
    /\ last_hook = "none"
    /\ engine_res = "none"
    /\ block = NoBlock([state |-> "absent", payload |-> <<>>])
    /\ conv = NoConversion
    /\ exec = NoExec
    /\ \E c \in AppCfgs : client = [NoClient EXCEPT !.config = c]

\* one call of find_a_remote_jsonrpc
FindARemoteJsonrpc ==
    /\ client.cpc = "idle"
    /\ \E env \in FindEnvs(client.config) :
        LET r == find_a_remote_jsonrpc(client.config, env)
        IN  client' = [ client EXCEPT !.cpc = "returned", !.op = "find_a_remote_jsonrpc",
                                      !.env = env, !.res = r.res, !.client = r.client,
                                      !.tried = r.tried,
                                      !.calls = <<"find_a_remote_jsonrpc">> ]
    /\ UNCHANGED <<txn_vars, block, conv, exec>>

\* one call of pick_client, with a swarm path or without
PickClient ==
    /\ client.cpc = "idle"
    /\ \E swarm_path \in {None, Some("swarm")} :
        \E env \in IF swarm_path = None THEN PickEnvs(client.config) ELSE SwarmEnvs :
            LET r == pick_client(swarm_path, client.config, env)
            IN  client' = [ client EXCEPT !.cpc = "returned", !.op = "pick_client",
                                          !.swarm_path = swarm_path, !.config = r.config,
                                          !.env = env, !.res = r.res, !.client = r.client,
                                          !.tried = r.tried, !.calls = r.calls ]
    /\ UNCHANGED <<txn_vars, block, conv, exec>>

NextClient ==
    \/ FindARemoteJsonrpc
    \/ PickClient

SpecClient == InitClient /\ [][NextClient]_vars

(* ------------------------------ gas admission: C1-C3 --------------------- *)
\* check_gas has returned for the transaction in hand
Checked == pc \notin {"idle", "check_gas"}

ScheduleLoaded == vm.on_chain_config # None

GC == Unwrap(vm.on_chain_config)

\* the five admission rules in the documented order: entry i holds iff rule i is violated
RuleViolated ==
    << T.transaction_size > GC.max_transaction_size_in_bytes,
       T.max_gas_amount > GC.maximum_number_of_gas_units,
       T.max_gas_amount * GC.gas_unit_scaling_factor
            + (GC.gas_unit_scaling_factor - 1)
          < calculate_intrinsic_gas(T.transaction_size, GC),
       T.gas_unit_price < GC.min_price_per_gas_unit,
       T.gas_unit_price > GC.max_price_per_gas_unit >>

RuleCode ==
    << "EXCEEDED_MAX_TRANSACTION_SIZE",
       "MAX_GAS_UNITS_EXCEEDS_MAX_GAS_UNITS_BOUND",
       "MAX_GAS_UNITS_BELOW_MIN_TRANSACTION_GAS_UNITS",
       "GAS_UNIT_PRICE_BELOW_MIN_BOUND",
       "GAS_UNIT_PRICE_ABOVE_MAX_BOUND" >>

\* C1: when at least one of the five rules is violated, check_gas returns the code of
\* the first violated rule in the order size, max-gas bound, intrinsic gas, min price,
\* max price, whatever later rules are violated too.
C1_FailFastOrder ==
    (Checked /\ ScheduleLoaded /\ \E i \in 1..5 : RuleViolated[i]) =>
        LET first == CHOOSE i \in 1..5 :
                        RuleViolated[i] /\ \A j \in 1..(i - 1) : ~RuleViolated[j]
        IN  gas_check = [class |-> "Rejection", code |-> RuleCode[first]]

\* C1 witness: max gas below the intrinsic gas (size and bound respected) together
\* with a price above the maximum is rejected for the intrinsic-gas rule
C1_Witness ==
    /\ Checked /\ ScheduleLoaded
    /\ ~RuleViolated[1] /\ ~RuleViolated[2] /\ RuleViolated[3] /\ RuleViolated[5]
    /\ gas_check.code = "MAX_GAS_UNITS_BELOW_MIN_TRANSACTION_GAS_UNITS"

\* C2: with a gas schedule loaded, check_gas returns Ok exactly when all five
\* conditions hold, each bound inclusive.
C2_OkIffAllRulesHold ==
    (Checked /\ ScheduleLoaded) =>
        ( gas_check = Ok <=>
            /\ T.transaction_size <= GC.max_transaction_size_in_bytes
            /\ T.max_gas_amount <= GC.maximum_number_of_gas_units
            /\ T.max_gas_amount >=
                 to_external_units(GC, calculate_intrinsic_gas(T.transaction_size, GC))
            /\ T.gas_unit_price >= GC.min_price_per_gas_unit
            /\ T.gas_unit_price <= GC.max_price_per_gas_unit )

\* C2 witness: a transaction whose size, max gas and price all sit on their bounds
\* is accepted
C2_Witness ==
    /\ Checked /\ ScheduleLoaded
    /\ T.transaction_size = GC.max_transaction_size_in_bytes
    /\ T.max_gas_amount = GC.maximum_number_of_gas_units
    /\ T.max_gas_amount =
         to_external_units(GC, calculate_intrinsic_gas(T.transaction_size, GC))
    /\ T.gas_unit_price = GC.max_price_per_gas_unit
    /\ gas_check = Ok

\* C3: no engine call (session creation, prologue, payload, epilogue) is made for a
\* transaction before check_gas has returned success, none at all for a transaction
\* that violates a rule, and the check_gas step changes nothing but its own result.
C3_NoEngineCallBeforeAdmission ==
    /\ [](txn # None =>
            /\ ((~Checked \/ ~ScheduleLoaded) => calls = <<>> /\ ~session.open)
            /\ ((ScheduleLoaded /\ \E i \in 1..5 : RuleViolated[i]) =>
                    calls = <<>> /\ ~session.open /\ pc \in {"check_gas", "discarded"}))
    /\ [][pc = "check_gas" =>
            UNCHANGED <<vm, txn, gas_status, session, calls, output>>]_vars

\* C3 witness: an oversized transaction stands rejected with no engine call made
C3_Witness ==
    /\ pc = "discarded" /\ ScheduleLoaded
    /\ T.transaction_size > GC.max_transaction_size_in_bytes
    /\ gas_check.code = "EXCEEDED_MAX_TRANSACTION_SIZE"
    /\ calls = <<>> /\ ~session.open

(* ------------------------------ script prologue: C4, C5 ------------------ *)
VersionLoaded == vm.version # None

\* the script prologue was called for the transaction in hand: the call after new_session
ScriptPrologueCalled ==
    /\ txn # None /\ T.kind = "script"
    /\ Len(calls) >= 2
    /\ calls[2].function \in {"script_prologue", "multi_agent_script_prologue"}

\* the run of run_script_prologue is over
ScriptPrologueDone ==
    /\ txn # None /\ T.kind = "script"
    /\ last_hook # "none"

\* C4: the multi-agent script prologue is invoked iff the protocol version is at
\* least DIEM_VERSION_3 and the transaction declares secondary signers; in every
\* other combination the single-agent script_prologue is invoked.
C4_MultiAgentSelection ==
    (ScriptPrologueDone /\ VersionLoaded) =>
        /\ ScriptPrologueCalled
        /\ calls[2].module = "ACCOUNT_MODULE"
        /\ (calls[2].function = "multi_agent_script_prologue"
                <=> (Unwrap(vm.version) >= DIEM_VERSION_3 /\ T.secondary_signers # <<>>))
        /\ \A i \in 1..Len(calls) :
                (i # 2 => calls[i].function
                            \notin {"script_prologue", "multi_agent_script_prologue"})

\* C4 witness: a newer version with no secondary signers took the single-agent form
C4_Witness ==
    /\ ScriptPrologueCalled /\ VersionLoaded
    /\ Unwrap(vm.version) > DIEM_VERSION_3
    /\ T.secondary_signers = <<>>
    /\ calls[2].function = "script_prologue"

\* C4 second witness state: the multi-agent form, at the threshold version
C4_MultiAgentTaken ==
    /\ ScriptPrologueCalled /\ VersionLoaded
    /\ Unwrap(vm.version) = DIEM_VERSION_3
    /\ T.secondary_signers # <<>>
    /\ calls[2].function = "multi_agent_script_prologue"

\* the documented argument lists
MultiAgentArgs ==
    << <<"Signer", T.sender>>, <<"U64", T.sequence_number>>,
       <<"vector_u8", T.authentication_key_preimage>>,
       <<"vector_address", T.secondary_signers>>,
       <<"Vector", [i \in 1..Len(T.secondary_signers) |->
                      <<"vector_u8", <<"sha3_256", <<"pk", T.secondary_signers[i]>> >> >>] >>,
       <<"U64", T.gas_unit_price>>, <<"U64", T.max_gas_amount>>,
       <<"U64", T.expiration_timestamp_secs>>, <<"U8", T.chain_id>> >>

SingleAgentArgs ==
    << <<"Signer", T.sender>>, <<"U64", T.sequence_number>>,
       <<"vector_u8", T.authentication_key_preimage>>,
       <<"U64", T.gas_unit_price>>, <<"U64", T.max_gas_amount>>,
       <<"U64", T.expiration_timestamp_secs>>, <<"U8", T.chain_id>>,
       <<"vector_u8", T.script_hash>> >>

\* C5: the function name and the argument list of run_script_prologue always match:
\* the multi-agent prologue gets the nine multi-agent arguments in order, the
\* single-agent prologue the eight single-agent ones and no secondary-signer argument.
C5_NameMatchesArgs ==
    ScriptPrologueCalled =>
        /\ (calls[2].function = "multi_agent_script_prologue"
                => calls[2].args = MultiAgentArgs)
        /\ (calls[2].function = "script_prologue"
                => /\ calls[2].args = SingleAgentArgs
                   /\ \A i \in 1..Len(calls[2].args) :
                        calls[2].args[i][1] \notin {"vector_address", "Vector"})

\* C5 witness: a multi-agent transaction below the threshold was sent to the
\* single-agent prologue with the eight single-agent arguments
C5_Witness ==
    /\ ScriptPrologueCalled /\ VersionLoaded
    /\ Unwrap(vm.version) < DIEM_VERSION_3
    /\ T.secondary_signers # <<>>
    /\ calls[2].function = "script_prologue"
    /\ Len(calls[2].args) = 8

(* ------------------------------ error policies: C6-C8 -------------------- *)
PrologueMethods == {"run_script_prologue", "run_module_prologue", "run_writeset_prologue"}

\* C6: whatever error the engine returns to a prologue hook (script, multi-agent
\* script, module, writeset), a verification error included, the hook returns Err
\* with a rejection status, never an invariant violation.
C6_PrologueErrorsAreRejections ==
    (last_hook \in PrologueMethods /\ engine_res \in EngineErrors) =>
        /\ pc = "discarded"
        /\ status # Ok
        /\ status.class = "Rejection"
        /\ output = None

\* C6 witness: a verification error in the module prologue stands as a rejection
C6_Witness ==
    /\ last_hook = "run_module_prologue"
    /\ engine_res = "VERIFICATION"
    /\ status.class = "Rejection"
    /\ pc = "discarded"

\* C7: every error the engine returns to the failure epilogue is reported as an
\* invariant violation, none as a rejection.
C7_FailureEpilogueErrorsAreFatal ==
    (last_hook = "run_failure_epilogue" /\ engine_res \in EngineErrors) =>
        /\ pc = "discarded"
        /\ status.class = "InvariantViolation"
        /\ output = None

\* C7 witness: an abort of the failure epilogue stands as an invariant violation
C7_Witness ==
    /\ last_hook = "run_failure_epilogue"
    /\ engine_res = "ABORT"
    /\ status.class = "InvariantViolation"

\* C8: in the success epilogue a verification error of the engine is reported as an
\* invariant violation, and every other engine error gets the status a prologue hook
\* gives the same error.
C8_SuccessEpiloguePolicy ==
    (last_hook = "run_success_epilogue" /\ engine_res \in EngineErrors) =>
        /\ pc = "discarded"
        /\ (engine_res = "VERIFICATION" => status.class = "InvariantViolation")
        /\ (engine_res # "VERIFICATION" =>
                /\ status = HookResult(run_writeset_prologue(vm, T), engine_res)
                /\ status.class = "Rejection")

\* C8 witness: out of gas in the success epilogue stands as the prologue's rejection
C8_Witness ==
    /\ last_hook = "run_success_epilogue"
    /\ engine_res = "OUT_OF_GAS"
    /\ status.class = "Rejection"

\* C8 second witness state: a verification error in the success epilogue
C8_VerificationSeen ==
    /\ last_hook = "run_success_epilogue"
    /\ engine_res = "VERIFICATION"
    /\ status.class = "InvariantViolation"

(* ------------------------------ failed payloads: C9 ---------------------- *)
Last(q) == q[Len(q)]

\* the transaction is kept with the status of a failed execution
FailedKept == pc \in {"output", "done"} /\ status.class = "Execution"

\* the write-set holding the epilogue's write of the sender's account and nothing else
EpilogueOnlyWriteSet ==
    << << [address |-> T.sender, path |-> <<"resource", 0>>], <<"Value", "epilogue">> >> >>

\* C9: after a recoverable payload failure the failure epilogue still runs, through
\* the entry point and with the argument list of the success epilogue (sender, seq#,
\* price, max-gas, gas-remaining), and the write-set of the transaction holds the
\* epilogue's effects and none of the failed payload's writes.
C9_FailureEpilogueOnly ==
    /\ (last_hook = "run_failure_epilogue" /\ engine_res # "none") =>
            /\ Len(Last(calls).args) = 5
            /\ \E n \in 0..to_internal_units(GC, T.max_gas_amount) :
                  Last(calls) =
                    EngineCall(run_success_epilogue(vm, [gas_status EXCEPT !.gas_left = n],
                                                    T, AccountCurrencySymbol, FALSE))
    /\ FailedKept =>
            /\ last_hook = "run_failure_epilogue" /\ engine_res = "OK"
            /\ (pc = "output" => session.writes = EpilogueEffects(T).writes)
            /\ (pc = "done" => /\ output # None
                               /\ Unwrap(output).write_set = EpilogueOnlyWriteSet
                               /\ Unwrap(output).status = status)

\* C9 witness: an aborted payload was kept: the engine saw new_session, prologue,
\* payload, new_session, epilogue, and the output holds the epilogue's write alone
C9_Witness ==
    /\ pc = "done" /\ output # None
    /\ status = [class |-> "Execution", code |-> "ABORT"]
    /\ Len(calls) = 5
    /\ calls[3] = PayloadCall /\ calls[4] = NewSessionCall
    /\ calls[5].function = "epilogue"
    /\ Unwrap(output).write_set = EpilogueOnlyWriteSet

\* C9 second witness state: the failed payload had left writes in its session
C9_DirtySessionDropped ==
    /\ pc = "failure_cleanup"
    /\ engine_res = "ABORT"
    /\ \E w \in session.writes : w.blob = Some("payload")

(* ------------------------------ meters of the hooks: C10 ----------------- *)
PrologueNames ==
    {"script_prologue", "multi_agent_script_prologue", "module_prologue", "writeset_prologue"}

\* C10: a prologue runs against a fresh unmetered meter: it leaves the live GasStatus
\* unchanged and never ends out of gas; the success and failure epilogues run against
\* the live GasStatus and get as gas-remaining argument the live meter's remaining gas
\* read just before the call.
C10_HookMeters ==
    /\ [][pc = "prologue" => gas_status' = gas_status]_vars
    /\ [](/\ \A i \in 1..Len(calls) :
                calls[i].function \in PrologueNames => ~calls[i].metered
          /\ last_hook \in PrologueMethods => engine_res # "OUT_OF_GAS")
    /\ [][(pc \in {"success_epilogue", "failure_epilogue"} /\ calls' # calls) =>
            /\ Last(calls').function = "epilogue"
            /\ Last(calls').metered
            /\ Last(calls').args[5] =
                 <<"U64", gas_status.gas_left \div gas_status.cost_table.gas_unit_scaling_factor>>
            /\ gas_status'.gas_left <= gas_status.gas_left]_vars

\* C10 witness: the success epilogue was told the remaining gas of before its call,
\* which the call then used up; the prologue before it had left the whole budget
C10_Witness ==
    /\ last_hook = "run_success_epilogue" /\ engine_res = "OK"
    /\ Last(calls).args[5][2] > 0
    /\ gas_status.gas_left = 0
    /\ ~calls[2].metered

(* ------------------------------ global write accounting: C11-C12 --------- *)
\* the accounts other than the sender that the session has written to
OtherAccountsMutated == {w.addr : w \in session.writes} \ {T.sender}

\* the charge for global state growth, in the meter's (internal) gas units
GlobalWriteCharge ==
    Cardinality(OtherAccountsMutated)
    * gas_status.cost_table.global_memory_per_byte_write_cost
    * gas_status.cost_table.default_account_size

ChargeStep == pc = "charge" /\ pc' # "charge"

\* C11: a charge that succeeds takes from the live meter exactly (accounts mutated
\* other than the sender) x per-byte global write cost x default account size, whatever
\* was written to them: the gas left afterwards is the gas left before minus the charge.
C11_GlobalWriteCharge ==
    [][ (ChargeStep /\ gas_status.gas_left >= GlobalWriteCharge) =>
            /\ pc' = "success_epilogue"
            /\ gas_status'.gas_left = gas_status.gas_left - GlobalWriteCharge
            /\ gas_status'.cost_table = gas_status.cost_table
            /\ session' = session ]_vars

\* C11 witness: two accounts other than the sender were written (and the sender's
\* too), and the charge of 2 x 1 x 2 = 4 units has taken the 4 units there were
C11_Witness ==
    /\ pc = "success_epilogue"
    /\ last_hook = "charge_global_write_gas_usage"
    /\ Cardinality(session.writes) = 3
    /\ Cardinality(OtherAccountsMutated) = 2
    /\ T.max_gas_amount = 2
    /\ gas_status.cost_table.gas_unit_scaling_factor = 2
    /\ gas_status.gas_left = 0

\* C12: a charge larger than the gas left ends in an out-of-gas status and the
\* transaction goes to the failure path; run_success_epilogue is entered only straight
\* after a charge that was deducted.
C12_NoEpilogueWithoutCharge ==
    [][ /\ (ChargeStep /\ gas_status.gas_left < GlobalWriteCharge) =>
              /\ status' = [class |-> "Execution", code |-> "OUT_OF_GAS"]
              /\ pc' = "failure_cleanup"
        /\ (last_hook' = "run_success_epilogue" /\ last_hook # "run_success_epilogue") =>
              /\ last_hook = "charge_global_write_gas_usage"
              /\ status = Ok
              /\ gas_status.charge ]_vars

\* C12 witness: the payload succeeded and wrote to two other accounts, the charge of
\* 4 units could not be paid, and no epilogue has been called
C12_Witness ==
    /\ pc = "failure_cleanup"
    /\ last_hook = "charge_global_write_gas_usage"
    /\ status = [class |-> "Execution", code |-> "OUT_OF_GAS"]
    /\ Cardinality(OtherAccountsMutated) = 2
    /\ calls[Len(calls)] = PayloadCall

(* ------------------------------ upgrade coordinator: C13-C16 ------------- *)
TickCall ==
    ExecuteFunctionCall(ORACLE_MODULE, CHECK_UPGRADE,
                        <<MoveValue_Signer(reserved_vm_address)>>)

\* the upgrade ran at the trigger round over a payload that holds modules, and returned Ok
UpgradeApplied ==
    /\ block.bpc = "commit"
    /\ block.round = UPGRADE_ROUND
    /\ block.resource.state = "present"
    /\ Len(block.resource.payload) > 0

\* C13: a successful upgrade at the trigger round over a non-empty payload has made, after
\* the tick, one revise_module call per module of the payload, each under the code
\* address and in the payload's order, then the reset call, then the reconfiguration
\* call; once its session is committed the payload resource is empty and the modules
\* are published.
C13_UpgradeApplied ==
    /\ UpgradeApplied =>
         LET payload == block.resource.payload
             n == Len(payload)
         IN  /\ block.upgrade_res = Ok
             /\ Len(block.calls) = n + 3
             /\ \A i \in 1..n :
                  block.calls[i + 1] = ReviseModuleCall(<<"bytes", payload[i]>>,
                                                        CORE_CODE_ADDRESS)
             /\ block.calls[n + 2] = ExecuteFunctionCall(UPGRADE_MODULE, RESET_PAYLOAD,
                                        <<MoveValue_Signer(reserved_vm_address)>>)
             /\ block.calls[n + 3] = ExecuteFunctionCall(DIEMCONFIG_MODULE,
                                                         UPGRADE_RECONFIG, <<>>)
    /\ (block.bpc = "done" /\ PublishedBy(block.calls) # {}) =>
         /\ block.resource = [state |-> "present", payload |-> <<>>]
         /\ PublishedBy(block.calls) \subseteq block.code
         /\ block.calls[Len(block.calls)].function = UPGRADE_RECONFIG

\* C13 witness: a payload of two modules was applied: tick, two publishes, reset and
\* reconfiguration, and the payload resource is now empty
C13_Witness ==
    /\ block.bpc = "done"
    /\ block.round = UPGRADE_ROUND
    /\ Len(block.calls) = 5
    /\ block.code = {1, 2}
    /\ block.resource.payload = <<>>

\* the payload resource exists and holds no module
EmptyPayload == block.resource = [state |-> "present", payload |-> <<>>]

\* C14: at the trigger round, with the payload resource there and empty, the upgrade
\* returns Ok without any call into the session (no publish, no reset, no
\* reconfiguration) and leaves the resource and the published code as they are, every
\* time it runs.
C14_EmptyPayloadNoOp ==
    [][ /\ (block.bpc = "upgrade" /\ block.round = UPGRADE_ROUND /\ EmptyPayload) =>
              /\ block'.upgrade_res = Ok
              /\ block'.bpc = "commit"
              /\ block'.calls = block.calls
              /\ block'.resource = block.resource
              /\ block'.code = block.code
        /\ (block.bpc = "commit" /\ block.calls = <<TickCall>>) =>
              /\ block'.resource = block.resource
              /\ block'.code = block.code ]_vars

\* C14 witness: the third block, again at the trigger round, over a payload that an
\* earlier block's upgrade emptied: nothing but the tick was called
C14_Witness ==
    /\ block.bpc = "done"
    /\ block.nblocks = 3
    /\ block.round = UPGRADE_ROUND
    /\ block.calls = <<TickCall>>
    /\ block.upgrade_res = Ok
    /\ EmptyPayload
    /\ block.code = {1, 2}

\* C15: a publish or a reset that fails during the upgrade comes back to the caller
\* as an error status of the invariant-violation class, which fails the transaction.
C15_FatalUpgradeErrorsPropagate ==
    block.failed_call \in {"revise_module", RESET_PAYLOAD} =>
        /\ block.upgrade_res.class = "InvariantViolation"
        /\ block.bpc = "failed"

Converted == conv.cpc = "converted"

\* every path the cache holds is the path of its key
CorrectCache == \A c \in conv.ap_cache : c.ap = create_access_path(c.addr, c.kind, c.name)

Upserts == { w \in conv.writes : w.blob # None }
Deletions == { w \in conv.writes : w.blob = None }

SomeEventMalformed == \E i \in 1..Len(conv.events) : conv.events[i].guid.len # EVENT_KEY_LENGTH

\* the path the injected cache answers for an entry of the change-set
PathOf(w) == get_path(conv.ap_cache, w.addr, w.kind, w.name)

\* two entries of the change-set come out under one access path
PathsCollide == \E w1, w2 \in conv.writes : w1 # w2 /\ PathOf(w1) = PathOf(w2)

\* the operation an entry of the change-set stands for
OpOf(w) == IF w.blob = None THEN <<"Deletion">> ELSE <<"Value", w.blob[1]>>

\* C17: a conversion that succeeds gives a write-set of exactly N + M operations for
\* the N upserts and M deletions of the change-set, under pairwise distinct access
\* paths, with a Deletion per entry without a blob and Value(blob) per entry with one;
\* with a correct cache and well-formed events it does succeed and each entry is found
\* under its own access path.
C17_WriteSetOfChangeSet ==
    /\ (Converted /\ conv.res = Ok) =>
         LET ws == conv.write_set
         IN  /\ Len(ws) = Cardinality(Upserts) + Cardinality(Deletions)
             /\ \A i, j \in 1..Len(ws) : i # j => ws[i][1] # ws[j][1]
             /\ Cardinality({ i \in 1..Len(ws) : ws[i][2] = <<"Deletion">> })
                  = Cardinality(Deletions)
             /\ \A w \in conv.writes : \E i \in 1..Len(ws) : ws[i] = <<PathOf(w), OpOf(w)>>
    /\ (Converted /\ CorrectCache /\ ~SomeEventMalformed) =>
         /\ conv.res = Ok
         /\ \A w \in conv.writes :
              \E i \in 1..Len(conv.write_set) :
                 conv.write_set[i] = <<create_access_path(w.addr, w.kind, w.name), OpOf(w)>>

\* C17 witness: two upserts and two deletions, of resources and modules of two
\* accounts, converted into four operations
C17_Witness ==
    /\ Converted
    /\ conv.res = Ok
    /\ Cardinality(Upserts) = 2
    /\ Cardinality(Deletions) = 2
    /\ Len(conv.write_set) = 4
    /\ \E u \in Upserts, d \in Deletions : u.kind = "module" /\ d.kind = "resource"

\* C18 as stated: an event whose id does not parse fails the conversion with
\* EVENT_KEY_MISMATCH, and neither write-set nor events come back.
C18_BadEventIsKeyMismatch ==
    (Converted /\ SomeEventMalformed) =>
        /\ conv.res = VMStatus_Error("EVENT_KEY_MISMATCH")
        /\ conv.write_set = <<>>
        /\ conv.out_events = <<>>

\* C18 amended: an event whose id does not parse fails the conversion as a whole,
\* neither write-set nor events come back; the error is EVENT_KEY_MISMATCH when the ops
\* froze into a write-set, and DATA_FORMAT_ERROR when freezing them failed first.
C18_BadEventFailsConversion ==
    (Converted /\ SomeEventMalformed) =>
        /\ conv.res = IF PathsCollide THEN VMStatus_Error("DATA_FORMAT_ERROR")
                      ELSE VMStatus_Error("EVENT_KEY_MISMATCH")
        /\ conv.write_set = <<>>
        /\ conv.out_events = <<>>

\* C18 witness: a change-set of three entries under a correct cache, a well-formed
\* event followed by a malformed one: EVENT_KEY_MISMATCH
C18_Witness ==
    /\ Converted
    /\ CorrectCache
    /\ Cardinality(conv.writes) = 3
    /\ Len(conv.events) = 2
    /\ conv.events[1].guid.len = EVENT_KEY_LENGTH
    /\ conv.events[2].guid.len # EVENT_KEY_LENGTH
    /\ conv.res = VMStatus_Error("EVENT_KEY_MISMATCH")

\* C19: when two entries of the change-set come out under one access path, the
\* conversion returns DATA_FORMAT_ERROR and no write-set.
C19_DuplicatePathsFailFreeze ==
    (Converted /\ PathsCollide) =>
        /\ conv.res = VMStatus_Error("DATA_FORMAT_ERROR")
        /\ conv.write_set = <<>>
        /\ conv.out_events = <<>>

\* C19 witness: the cache answers the path of account 2's resource for account 1's,
\* both are in the change-set, the events are well-formed: DATA_FORMAT_ERROR
C19_Witness ==
    /\ Converted
    /\ ~CorrectCache
    /\ \E w1, w2 \in conv.writes : w1.addr = 1 /\ w2.addr = 2 /\ PathOf(w1) = PathOf(w2)
    /\ ~SomeEventMalformed
    /\ Len(conv.events) = 1
    /\ conv.res = VMStatus_Error("DATA_FORMAT_ERROR")

CallsOf(function) == { i \in 1..Len(block.calls) : block.calls[i].function = function }

\* apply_stdlib_upgrade has run for the block in hand, and block.resource is still the
\* resource it read (the session is not committed)
UpgradeRan == block.bpc \in {"commit", "failed", "aborted"}

\* C23: in the calls of one run every revise_module call comes before the reset call
\* and follows the payload's order, the reset call is made once all modules of the
\* payload are published, and a reconfiguration call is made only after a reset call
\* that succeeded.
C23_UpgradeStepsOrdered ==
    /\ \A r \in CallsOf("revise_module"), x \in CallsOf(RESET_PAYLOAD) : r < x
    /\ \A r \in CallsOf("revise_module"), g \in CallsOf(UPGRADE_RECONFIG) : r < g
    /\ \A g \in CallsOf(UPGRADE_RECONFIG) :
          /\ \E x \in CallsOf(RESET_PAYLOAD) : x < g
          /\ block.failed_call # RESET_PAYLOAD
    /\ Cardinality(CallsOf(RESET_PAYLOAD)) <= 1
    /\ Cardinality(CallsOf(UPGRADE_RECONFIG)) <= 1
    /\ UpgradeRan =>
          /\ \A r \in CallsOf("revise_module") :
                block.calls[r] = ReviseModuleCall(<<"bytes", block.resource.payload[r - 1]>>,
                                                  CORE_CODE_ADDRESS)
          /\ CallsOf(RESET_PAYLOAD) # {} =>
                Cardinality(CallsOf("revise_module")) = Len(block.resource.payload)

\* C23 witness: two modules published, then the reset, then the reconfiguration
C23_Witness ==
    /\ block.bpc = "commit"
    /\ CallsOf("revise_module") = {2, 3}
    /\ CallsOf(RESET_PAYLOAD) = {4}
    /\ CallsOf(UPGRADE_RECONFIG) = {5}

\* C24: a publish, the reset or the reconfiguration is called only at the trigger round
\* with a payload that holds modules; at any other round the upgrade returns Ok and
\* makes no call, whatever the payload resource is, there or not.
C24_UpgradeGuarded ==
    UpgradeRan =>
        /\ Len(block.calls) > 1 =>
              /\ block.round = UPGRADE_ROUND
              /\ block.resource.state = "present"
              /\ Len(block.resource.payload) > 0
        /\ block.round # UPGRADE_ROUND =>
              /\ block.upgrade_res = Ok
              /\ block.calls = <<TickCall>>
              /\ block.revised = <<>>
              /\ block.bpc = "commit"

\* C24 witness: round 3, no payload resource in the state view: Ok, nothing called
C24_Witness ==
    /\ block.bpc = "commit"
    /\ block.round = UPGRADE_ROUND + 1
    /\ block.resource.state = "absent"
    /\ block.upgrade_res = Ok
    /\ block.calls = <<TickCall>>

\* C25: when the publish of the k-th module fails the run ends there: the k calls are
\* the only ones made, the k-1 modules published before are still revised in the
\* session, and neither reset nor reconfiguration is called; when the reset fails no
\* reconfiguration is called.
C25_PartialUpgradeHalts ==
    /\ block.failed_call = "revise_module" =>
          LET k == Cardinality(CallsOf("revise_module"))
          IN  /\ block.bpc = "aborted"
              /\ k >= 1
              /\ block.calls = <<TickCall>> \o
                    [ i \in 1..k |-> ReviseModuleCall(<<"bytes", block.resource.payload[i]>>,
                                                      CORE_CODE_ADDRESS) ]
              /\ block.revised = SubSeq(block.resource.payload, 1, k - 1)
    /\ block.failed_call = RESET_PAYLOAD =>
          /\ block.bpc = "aborted"
          /\ CallsOf(UPGRADE_RECONFIG) = {}
          /\ block.calls[Len(block.calls)].function = RESET_PAYLOAD
          /\ block.revised = block.resource.payload

\* C25 witness: the second of two modules failed to publish; the first stays revised
C25_Witness ==
    /\ block.failed_call = "revise_module"
    /\ Len(block.calls) = 3
    /\ Len(block.revised) = 1
    /\ block.revised[1] = block.resource.payload[1]
    /\ Len(block.resource.payload) = 2

\* C26: at the trigger round a payload resource that cannot be obtained fails the
\* upgrade before any step: CURRENCY_INFO_DOES_NOT_EXIST when it is absent or the read
\* failed, RESOURCE_DOES_NOT_EXIST when its bytes do not deserialize.
C26_UnreadablePayloadFails ==
    (UpgradeRan /\ block.round = UPGRADE_ROUND /\ block.resource.state # "present") =>
        /\ block.bpc = "failed"
        /\ block.calls = <<TickCall>>
        /\ block.revised = <<>>
        /\ block.upgrade_res =
              IF block.resource.state = "malformed"
              THEN VMStatus_Error("RESOURCE_DOES_NOT_EXIST")
              ELSE VMStatus_Error("CURRENCY_INFO_DOES_NOT_EXIST")

\* C26 witness: trigger round, no payload resource: CURRENCY_INFO_DOES_NOT_EXIST
C26_Witness ==
    /\ block.bpc = "failed"
    /\ block.round = UPGRADE_ROUND
    /\ block.resource.state = "absent"
    /\ block.upgrade_res = VMStatus_Error("CURRENCY_INFO_DOES_NOT_EXIST")
    /\ block.calls = <<TickCall>>

(* ------------------------------ output order: C27 ------------------------ *)
\* the access path p1 is the path of a change-set entry visited before the entry of p2:
\* an earlier account, or the same account and a resource against a module, or the
\* same collection and an earlier key
PathBefore(p1, p2) ==
    \/ p1.address < p2.address
    \/ p1.address = p2.address /\ p1.path[1] = "resource" /\ p2.path[1] = "code"
    \/ p1.address = p2.address /\ p1.path[1] = p2.path[1] /\ p1.path[2] < p2.path[2]

\* C27: the write-set of a successful conversion lists the entries in the change-set's
\* traversal order, accounts in their order and in one account the resources before the
\* modules, and its event list has one chain event per raw event, in the same
\* position, with the raw event's sequence number, type tag and payload.
C27_OutputKeepsTraversalOrder ==
    (Converted /\ conv.res = Ok) =>
        /\ Len(conv.write_set) = Cardinality(conv.writes)
        /\ CorrectCache =>
              \A i, j \in 1..Len(conv.write_set) :
                  i < j => PathBefore(conv.write_set[i][1], conv.write_set[j][1])
        /\ Len(conv.out_events) = Len(conv.events)
        /\ \A i \in 1..Len(conv.events) :
              /\ conv.out_events[i].seq_num = conv.events[i].seq_num
              /\ conv.out_events[i].ty_tag = conv.events[i].ty_tag
              /\ conv.out_events[i].blob = conv.events[i].blob
              /\ conv.out_events[i].key = <<"EventKey", conv.events[i].guid.id>>

\* C27 witness: two accounts with a resource and a module each, and two events
C27_Witness ==
    /\ Converted
    /\ conv.res = Ok
    /\ CorrectCache
    /\ Len(conv.write_set) = 4
    /\ conv.write_set[1][1] = create_access_path(1, "resource", 1)
    /\ conv.write_set[2][1] = create_access_path(1, "module", 1)
    /\ conv.write_set[3][1] = create_access_path(2, "resource", 1)
    /\ conv.write_set[4][1] = create_access_path(2, "module", 1)
    /\ Len(conv.out_events) = 2
    /\ conv.out_events[1].seq_num = 0
    /\ conv.out_events[2].seq_num = 1

StartupFailure == VMStatus_Error("VM_STARTUP_FAILURE")

\* what an accessor answers when its record is found, or not
AccessorAnswer(record) == IF record = None THEN StartupFailure ELSE Ok

\* C21: each config accessor answers VM_STARTUP_FAILURE exactly when its own record
\* was not found in the storage the instance was built from, check_gas answers it for
\* every transaction exactly when the gas schedule was not found, and the three
\* records of the instance stay what construction found.
C21_AccessorsFailOnAbsentRecord ==
    /\ vm.on_chain_config = exec.data_cache.VMConfig
    /\ vm.version = exec.data_cache.DiemVersion
    /\ vm.publishing_option = exec.data_cache.VMPublishingOption
    /\ \A i \in 1..MaxThreads :
          /\ exec.threads[i].configs # None =>
                LET c == Unwrap(exec.threads[i].configs)
                IN  /\ c.gas_schedule = AccessorAnswer(exec.data_cache.VMConfig)
                    /\ c.diem_version = AccessorAnswer(exec.data_cache.DiemVersion)
                    /\ c.publishing_option = AccessorAnswer(exec.data_cache.VMPublishingOption)
          /\ exec.threads[i].tpc \in {"prologue", "configs", "done"} =>
                (exec.threads[i].gas_check = StartupFailure
                    <=> exec.data_cache.VMConfig = None)

\* C21 witness: the gas schedule alone was not found: the other two accessors answer,
\* and check_gas fails at startup on a transaction that is also too large
C21_Witness ==
    /\ exec.data_cache.VMConfig = None
    /\ exec.data_cache.DiemVersion # None
    /\ exec.data_cache.VMPublishingOption # None
    /\ exec.threads[1].tpc = "done"
    /\ Unwrap(exec.threads[1].txn).transaction_size = MaxTxnSize
    /\ exec.threads[1].gas_check = StartupFailure
    /\ Unwrap(exec.threads[1].configs) =
          [gas_schedule |-> StartupFailure, diem_version |-> Ok, publishing_option |-> Ok]

Qualified(i) ==
    /\ client.env.answers[i].make_ok
    /\ client.env.answers[i].metadata # None
    /\ client.env.answers[i].metadata[1].version > 0

UpstreamEntries == 1..Len(upstream_list(client.config))

\* C29: find_a_remote_jsonrpc returns a client only of an upstream entry that answered
\* this call with a client and a version above 0, returns an error when the list is not
\* configured, is empty or holds no such entry, and tries no entry twice; pick_client
\* without a swarm path calls it before check_sync and fails when no entry qualifies,
\* whatever the sync state.
C29_RemoteClientQualified ==
    /\ client.op = "find_a_remote_jsonrpc" =>
          /\ client.res = "Ok" =>
                \E i \in UpstreamEntries :
                    /\ Some(upstream_list(client.config)[i]) = client.client
                    /\ Qualified(i)
                    /\ \E k \in 1..Len(client.tried) : client.tried[k] = i
          /\ (\A i \in UpstreamEntries : ~Qualified(i)) =>
                (client.res = "Err" /\ client.client = None)
    /\ (client.op = "pick_client" /\ client.swarm_path = None) =>
          /\ \A k \in 1..Len(client.calls) :
                client.calls[k] = "check_sync" =>
                    \E f \in 1..(k - 1) : client.calls[f] = "find_a_remote_jsonrpc"
          /\ (\A i \in UpstreamEntries : ~Qualified(i)) =>
                /\ client.res # "Ok"
                /\ client.client = None
                /\ \A k \in 1..Len(client.calls) : client.calls[k] # "check_sync"
    /\ \A k \in 1..Len(client.tried) : client.tried[k] \in UpstreamEntries
    /\ \A k, l \in 1..Len(client.tried) : k # l => client.tried[k] # client.tried[l]

\* C29 witness: the local node is in sync and its client is built, and pick_client
\* fails on two upstream entries of which one reports version 0 and one no metadata
C29_Witness ==
    /\ client.op = "pick_client"
    /\ client.swarm_path = None
    /\ client.config.default_node # None
    /\ client.env.waypoint_ok
    /\ client.env.local_ok
    /\ client.env.sync = "synced"
    /\ Len(upstream_list(client.config)) = 2
    /\ client.env.answers[1] = [make_ok |-> TRUE, metadata |-> Some([version |-> 0])]
    /\ client.env.answers[2] = [make_ok |-> TRUE, metadata |-> None]
    /\ Len(client.tried) = 2
    /\ client.res = "Err"

====
